---------------------------- MODULE Spec2Model ----------------------------
(***************************************************************************)
(* A model of blot: Objecthash with multihash hints.                       *)
(*                                                                         *)
(* Bytes are naturals in 0..255 and byte strings are sequences of bytes.   *)
(* A Rust String is the sequence of its UTF-8 bytes.  A u64 is the         *)
(* sequence of its eight bytes, least significant first, so that the byte  *)
(* shuffling of the uvar codec is modelled at full width.  The target is   *)
(* little-endian (u64::to_be swaps the bytes).                              *)
(*                                                                         *)
(* The library is a set of pure functions; every subsystem has its own     *)
(* specification whose Init draws the inputs and whose actions apply the   *)
(* functions: SpecUvar (uvar codec), SpecSeal (seal parsing), SpecHash     *)
(* (hashing of Value<T>) and SpecJson (hashing of serde_json::Value).       *)
(***************************************************************************)
EXTENDS Integers, Sequences, FiniteSets, Bags, TLC

VARIABLES
    pc,        \* the step the running scenario is at
    un,        \* uvar codec: the u64 handed to Uvar::from
    uvar,      \* uvar codec: the bytes of the Uvar built by Uvar::from
    utaken,    \* uvar codec: the result of Uvar::take on those bytes
    udecoded,  \* uvar codec: the result of u64::from on the taken Uvar
    sealT,     \* seal: the algorithm T of the Seal<T> being parsed
    sealInput, \* seal: the hex body (a string) the three surface forms share
    sealBytes, \* seal: a raw byte buffer handed to Seal::from_bytes
    sealRes,   \* seal: the results of the parsing calls
    hashT,     \* hash: the algorithm T of the Value<T>
    hashAlg,   \* hash: the algorithm handed to digest()
    value,     \* hash: the Value<T> (or serde_json::Value) being hashed
    before,    \* hash: the result of digest() on value
    op,        \* hash: the rewriting applied to value
    changed,   \* hash: the rewritten value
    after,     \* hash: the result of digest() on the rewritten value
    hashText,  \* hash: the Display text of the Hash in before
    ubuffer,   \* uvar codec: a byte buffer handed to Uvar::take and from_bytes
    ufrom,     \* uvar codec: the result of Uvar::from_bytes on that buffer
    deDoc,     \* deserialiser: the JSON document
    deMode,    \* deserialiser: "list" for Value<T>, "set" for ValueSet<T>
    deT,       \* deserialiser: the algorithm T of the Value<T>
    deRes,     \* deserialiser: the result of deserialising the document
    regQuery,  \* registry: the name or the code that is looked up
    regRes,    \* registry: the result of the lookup
    fin,       \* float_normalize: the f64 it was called with
    ff,        \* float_normalize: the local f, as [mant, exp]
    fe,        \* float_normalize: the local e
    fs,        \* float_normalize: the local s
    hin,       \* digester: the calls of input() made so far on one digester
    hrest,     \* digester: the child results still to be absorbed
    hout       \* digester: what result() returned

vars == <<pc, un, uvar, utaken, udecoded, sealT, sealInput, sealBytes, sealRes,
          hashT, hashAlg, value, before, op, changed, after, hashText,
          ubuffer, ufrom, deDoc, deMode, deT, deRes, regQuery, regRes,
          fin, ff, fe, fs, hin, hrest, hout>>

uvarVars == <<un, uvar, utaken, udecoded>>
sealVars == <<sealT, sealInput, sealBytes, sealRes>>
hashVars == <<hashT, hashAlg, value, before, op, changed, after>>
bufVars == <<ubuffer, ufrom>>
deVars == <<deDoc, deMode, deT, deRes>>
regVars == <<regQuery, regRes>>
floatVars == <<fin, ff, fe, fs>>
\* The variables of the scenarios that run step by step.
absorbVars == <<hin, hrest, hout>>
stepVars == <<floatVars, absorbVars>>
restVars == <<hashText, bufVars, deVars, regVars, stepVars>>

\* The value of a variable no scenario has written yet.
Idle == [kind |-> "idle"]

\* The variables of a subsystem, while a scenario of another one runs.
UvarIdle == un = Idle /\ uvar = Idle /\ utaken = Idle /\ udecoded = Idle
SealIdle == sealT = Idle /\ sealInput = Idle /\ sealBytes = Idle /\ sealRes = Idle
HashIdle ==
    /\ hashT = Idle /\ hashAlg = Idle /\ value = Idle /\ before = Idle
    /\ op = Idle /\ changed = Idle /\ after = Idle
BufIdle == ubuffer = Idle /\ ufrom = Idle
DeIdle == deDoc = Idle /\ deMode = Idle /\ deT = Idle /\ deRes = Idle
RegIdle == regQuery = Idle /\ regRes = Idle
FloatIdle == fin = Idle /\ ff = Idle /\ fe = Idle /\ fs = Idle
AbsorbIdle == hin = Idle /\ hrest = Idle /\ hout = Idle
StepIdle == FloatIdle /\ AbsorbIdle
RestIdle == hashText = Idle /\ BufIdle /\ DeIdle /\ RegIdle /\ StepIdle

-----------------------------------------------------------------------------
(* Bytes and sequences *)

Min(a, b) == IF a < b THEN a ELSE b

\* buffer[from..] of a Rust slice, with from a 0-based index.
SliceFrom(s, from) == SubSeq(s, from + 1, Len(s))

\* buffer[..to] of a Rust slice, with to a 0-based exclusive index.
SliceTo(s, to) == SubSeq(s, 1, to)

\* str::starts_with on byte sequences.
StartsWith(s, prefix) ==
    /\ Len(s) >= Len(prefix)
    /\ SubSeq(s, 1, Len(prefix)) = prefix

\* n copies of byte b.
Fill(n, b) == [i \in 1..n |-> b]

RECURSIVE Flatten(_)
\* The concatenation of a sequence of byte strings.
Flatten(list) ==
    IF list = <<>> THEN <<>> ELSE Head(list) \o Flatten(Tail(list))

-----------------------------------------------------------------------------
(* u64 as eight bytes, least significant first *)

RECURSIVE LeBytes(_, _)
\* The w low bytes of the natural k, least significant first.
LeBytes(k, w) ==
    IF w = 0 THEN <<>> ELSE <<k % 256>> \o LeBytes(k \div 256, w - 1)

\* The u64 with the value of the natural k (k < 2^31).
U64(k) == LeBytes(k, 8)

U64Zero == Fill(8, 0)

\* value >> 8 on a u64.
Shr8(v) == Tail(v) \o <<0>>

\* n << (8 * k) on a u64, for k < 8: the high bytes fall off.
ShlBytes(v, k) == Fill(k, 0) \o SubSeq(v, 1, 8 - k)

\* a | b on two u64.
BitOrLow(v, b) ==
    \* b is a single byte and the low byte of v is zero or v is zero-extended:
    \* the general bitwise or of the low byte.
    LET lo == v[1]
        bits(x, i) == (x \div (2 ^ i)) % 2
        orred == LET bit(i) == IF bits(lo, i) = 1 \/ bits(b, i) = 1 THEN 2 ^ i ELSE 0
                 IN bit(0) + bit(1) + bit(2) + bit(3) + bit(4) + bit(5) + bit(6) + bit(7)
    IN <<orred>> \o Tail(v)

\* u64::to_be on a little-endian target: the bytes are swapped.
ToBe(v) == [i \in 1..8 |-> v[9 - i]]

-----------------------------------------------------------------------------
(* src/uvar.rs *)

MAXBYTES == 9

Ok(v) == [kind |-> "Ok", val |-> v]
Err(e) == [kind |-> "Err", err |-> e]
\* A panic: the call aborts and returns nothing.
Panic == [kind |-> "Panic"]

RECURSIVE UvarFromLoop(_, _)
\* The while loop of From<u64> for Uvar: the low byte of value is pushed
\* unless it is zero, then value is shifted right by eight bits.
UvarFromLoop(val, buffer) ==
    IF val = U64Zero THEN buffer
    ELSE LET k == val[1]
         IN UvarFromLoop(Shr8(val), IF k # 0 THEN Append(buffer, k) ELSE buffer)

\* impl From<u64> for Uvar
UvarFrom(n) == UvarFromLoop(ToBe(n), <<>>)

RECURSIVE TakeLoop(_, _)
\* The for loop of Uvar::take at 0-based index i.
TakeLoop(buffer, i) ==
    IF i >= Len(buffer) THEN Err("Underflow")
    ELSE IF buffer[i + 1] < 128
         THEN Ok([uvar |-> SliceTo(buffer, i + 1), rest |-> SliceFrom(buffer, i + 1)])
         ELSE IF i >= MAXBYTES THEN Err("Overflow")
              ELSE TakeLoop(buffer, i + 1)

\* Uvar::take
UvarTake(buffer) == TakeLoop(buffer, 0)

\* Uvar::from_bytes: the Uvar taken from the buffer; the rest is let go.
UvarFromBytes(buffer) ==
    IF Len(buffer) > MAXBYTES THEN Err("Overflow")
    ELSE LET taken == UvarTake(buffer)
         IN IF taken.kind = "Err" THEN taken ELSE Ok(taken.val.uvar)

\* Uvar::to_bytes: the bytes the Uvar holds.
UvarToBytes(u) == u

\* A u64 read from the bytes of a Uvar with the first byte lowest.
U64FromUvarLowFirst(bytes, overflowChecks) ==
    IF Len(bytes) > 8 /\ overflowChecks THEN Panic
    ELSE Ok([i \in 1..8 |-> IF i <= Len(bytes) THEN bytes[i] ELSE 0])

RECURSIVE U64FromLoop(_, _, _, _)
\* The for loop of From<Uvar> for u64 at 0-based index i: n = n << (i * 8) | b.
\* A shift by 64 bits or more panics where overflow checks are compiled in and
\* is taken modulo 64 where they are not.
U64FromLoop(bytes, i, n, overflowChecks) ==
    IF i >= Len(bytes) THEN Ok(n)
    ELSE IF i >= 8 /\ overflowChecks THEN Panic
         ELSE U64FromLoop(bytes, i + 1,
                          BitOrLow(ShlBytes(n, i % 8), bytes[i + 1]),
                          overflowChecks)

\* impl From<Uvar> for u64
U64FromUvar(bytes, overflowChecks) == U64FromLoop(bytes, 0, U64Zero, overflowChecks)

-----------------------------------------------------------------------------
(* blot-lib/src/multihash: the registered algorithms *)

\* The types implementing Multihash.
Algorithms ==
    {"Sha1", "Sha2256", "Sha2512", "Sha3512", "Sha3384", "Sha3256", "Sha3224",
     "Blake2b512", "Blake2s256"}

\* The u64 literal each code() hands to Uvar::from.
CodeNumber(a) ==
    CASE a = "Sha1" -> 17          \* 0x11
      [] a = "Sha2256" -> 18       \* 0x12
      [] a = "Sha2512" -> 19       \* 0x13
      [] a = "Sha3512" -> 20       \* 0x14
      [] a = "Sha3384" -> 21       \* 0x15
      [] a = "Sha3256" -> 22       \* 0x16
      [] a = "Sha3224" -> 23       \* 0x17
      [] a = "Blake2b512" -> 45632 \* 0xb240
      [] a = "Blake2s256" -> 45664 \* 0xb260

\* Multihash::code
AlgCode(a) == UvarFrom(U64(CodeNumber(a)))

\* Multihash::length
AlgLength(a) ==
    CASE a = "Sha1" -> 20
      [] a = "Sha2256" -> 32
      [] a = "Sha2512" -> 64
      [] a = "Sha3512" -> 64
      [] a = "Sha3384" -> 48
      [] a = "Sha3256" -> 32
      [] a = "Sha3224" -> 28
      [] a = "Blake2b512" -> 64
      [] a = "Blake2s256" -> 32

\* Multihash::name
AlgName(a) ==
    CASE a = "Sha1" -> "sha1"
      [] a = "Sha2256" -> "sha2-256"
      [] a = "Sha2512" -> "sha2-512"
      [] a = "Sha3512" -> "sha3-512"
      [] a = "Sha3384" -> "sha3-384"
      [] a = "Sha3256" -> "sha3-256"
      [] a = "Sha3224" -> "sha3-224"
      [] a = "Blake2b512" -> "blake2b-512"
      [] a = "Blake2s256" -> "blake2s-256"

-----------------------------------------------------------------------------
(* Strings: a Rust String is the sequence of its bytes *)

\* The ASCII code of the characters the model writes.
CharCode ==
    [c \in {"*", "R", "E", "D", "A", "C", "T", "-", ":", "+", "Z", "F", "G", "g", ".", "B",
            "0", "1", "2", "3", "4", "5", "6", "7", "8", "9",
            "a", "b", "c", "d", "e", "f", "o", "r", "z"} |->
        CASE c = "*" -> 42 [] c = "+" -> 43 [] c = "-" -> 45 [] c = ":" -> 58
          [] c = "." -> 46 [] c = "B" -> 66
          [] c = "0" -> 48 [] c = "1" -> 49 [] c = "2" -> 50 [] c = "3" -> 51
          [] c = "4" -> 52 [] c = "5" -> 53 [] c = "6" -> 54 [] c = "7" -> 55
          [] c = "8" -> 56 [] c = "9" -> 57
          [] c = "A" -> 65 [] c = "C" -> 67 [] c = "D" -> 68 [] c = "E" -> 69
          [] c = "F" -> 70 [] c = "G" -> 71 [] c = "R" -> 82 [] c = "T" -> 84
          [] c = "Z" -> 90
          [] c = "a" -> 97 [] c = "b" -> 98 [] c = "c" -> 99 [] c = "d" -> 100
          [] c = "e" -> 101 [] c = "f" -> 102 [] c = "g" -> 103 [] c = "o" -> 111
          [] c = "r" -> 114 [] c = "z" -> 122]

\* The String written as a sequence of characters.
Str(chars) == [i \in 1..Len(chars) |-> CharCode[chars[i]]]

\* "**REDACTED**"
RedactedPrefix == Str(<<"*", "*", "R", "E", "D", "A", "C", "T", "E", "D", "*", "*">>)

\* "77"
MarkPrefix == Str(<<"7", "7">>)

\* i64::to_string / u64::to_string of a non-negative number: its decimal digits.
RECURSIVE DecimalDigits(_)
DecimalDigits(n) ==
    IF n < 10 THEN <<48 + n>> ELSE Append(DecimalDigits(n \div 10), 48 + (n % 10))

\* to_string of an integer: a leading '-' for a negative number.
ToDecimalString(n) ==
    IF n < 0 THEN <<45>> \o DecimalDigits(-n) ELSE DecimalDigits(n)

-----------------------------------------------------------------------------
(* The hex crate, as used by Seal::from_str and the JSON bridge *)

\* The value of a hexadecimal digit, or -1: 0-9, a-f and A-F are digits.
HexDigitValue(c) ==
    IF c >= 48 /\ c <= 57 THEN c - 48
    ELSE IF c >= 97 /\ c <= 102 THEN c - 87
    ELSE IF c >= 65 /\ c <= 70 THEN c - 55
    ELSE -1

\* Vec::from_hex: an odd length or a character that is no digit is an error.
FromHex(s) ==
    IF Len(s) % 2 # 0 THEN Err("HexError")
    ELSE IF \E i \in 1..Len(s) : HexDigitValue(s[i]) = -1 THEN Err("HexError")
    ELSE Ok([i \in 1..(Len(s) \div 2) |->
                16 * HexDigitValue(s[2 * i - 1]) + HexDigitValue(s[2 * i])])

\* The lowercase digit of a nibble.
HexDigit(n) == IF n < 10 THEN 48 + n ELSE 87 + n

\* format!("{:02x}", byte) over a byte string: its lowercase hex text.
ToHex(bytes) ==
    [i \in 1..(2 * Len(bytes)) |->
        IF i % 2 = 1 THEN HexDigit(bytes[(i + 1) \div 2] \div 16)
        ELSE HexDigit(bytes[i \div 2] % 16)]

\* The sixteen nibbles of a u64, highest first.
Nibbles(v) ==
    [i \in 1..16 |->
        IF i % 2 = 1 THEN v[8 - ((i - 1) \div 2)] \div 16
        ELSE v[8 - ((i - 1) \div 2)] % 16]

\* format!("{:02x}", n) on an integer: its lowercase hex digits without
\* leading zeros, padded with zeros to two digits.
LowerHex02(v) ==
    LET nibbles == Nibbles(v)
        zeros == IF \A i \in 1..16 : nibbles[i] = 0 THEN 16
                 ELSE (CHOOSE i \in 1..16 :
                          nibbles[i] # 0 /\ \A j \in 1..(i - 1) : nibbles[j] = 0) - 1
        from == Min(zeros, 14)
    IN [i \in 1..(16 - from) |-> HexDigit(nibbles[from + i])]

-----------------------------------------------------------------------------
(* blot-lib/src/seal.rs *)

SEAL_MARK == 119

\* Seal { tag, digest }
Seal(t, digest) == [tag |-> t, digest |-> digest]

SealErr(e) == [kind |-> "Err", err |-> e]

\* Seal::from_bytes_without_mark
FromBytesWithoutMark(t, bytes) ==
    LET taken == UvarTake(bytes) IN
    IF taken.kind = "Err" THEN SealErr([error |-> "UvarParseError", cause |-> taken.err])
    ELSE
    LET code == taken.val.uvar
        rest == taken.val.rest
    IN
    IF AlgCode(t) # code
    THEN SealErr([error |-> "InvalidStamp", actual |-> code, expected |-> AlgCode(t)])
    ELSE IF Len(rest) < 2 THEN SealErr([error |-> "DigestTooShort"])
    ELSE
    LET length == rest[1]
        digest == SliceFrom(rest, 1)
    IN
    IF length # AlgLength(t)
    THEN SealErr([error |-> "UnexpectedLength", expected |-> AlgLength(t), actual |-> length])
    ELSE IF Len(digest) % 256 # length
    THEN SealErr([error |-> "UnexpectedLength", expected |-> AlgLength(t),
                  actual |-> Len(digest) % 256])
    ELSE Ok(Seal(t, digest))

\* Seal::from_bytes: bytes[0] is read before anything is known of the slice.
SealFromBytes(t, bytes) ==
    IF Len(bytes) = 0 THEN Panic
    ELSE IF bytes[1] # SEAL_MARK THEN SealErr([error |-> "NotRedacted"])
    ELSE FromBytesWithoutMark(t, SliceFrom(bytes, 1))

\* Seal::from_str cutting two characters whichever prefix it met.
SealFromStrSameOffset(t, input) ==
    IF ~StartsWith(input, RedactedPrefix) /\ ~StartsWith(input, MarkPrefix)
    THEN SealErr([error |-> "NotRedacted"])
    ELSE
    LET bytes == FromHex(SliceFrom(input, 2))
    IN IF bytes.kind = "Err" THEN SealErr([error |-> "HexError"])
       ELSE FromBytesWithoutMark(t, bytes.val)

\* Seal::from_str
SealFromStr(t, input) ==
    IF ~StartsWith(input, RedactedPrefix) /\ ~StartsWith(input, MarkPrefix)
    THEN SealErr([error |-> "NotRedacted"])
    ELSE
    LET bare == IF StartsWith(input, RedactedPrefix)
                THEN SliceFrom(input, 12)
                ELSE SliceFrom(input, 2)
        bytes == FromHex(bare)
    IN IF bytes.kind = "Err" THEN SealErr([error |-> "HexError"])
       ELSE FromBytesWithoutMark(t, bytes.val)

-----------------------------------------------------------------------------
(* tag.rs: the tag bytes *)

TagBool == 98
TagDict == 100
TagFloat == 102
TagInteger == 105
TagList == 108
TagNull == 110
TagRaw == 114
TagSet == 115
TagUnicode == 117
\* Tag::Timestamp, used by Value::Timestamp
TagTimestamp == 116

-----------------------------------------------------------------------------
(* The digester: the hash primitive of an algorithm.  The primitives are   *)
(* the sha-1, sha2, sha3 and blake2 crates the type aliases of digester.rs *)
(* name; they are modelled by what they compute: SHA-1 and SHA-2 as in     *)
(* FIPS 180-4, SHA-3 as in FIPS 202, BLAKE2 as in RFC 7693.                *)

\* Digest::input: the bytes absorbed so far, then the new ones.
Input(absorbed, bytes) == absorbed \o bytes

\* A word is the tuple of its 16-bit limbs, the highest first: two limbs for
\* a u32, four for a u64.

\* The operations that run on a digester, by name: Op is defined after those
\* of the digesters; the blot of a value is defined with the values.
RECURSIVE Op(_, _)
RECURSIVE ValueBlot(_, _)
RECURSIVE JsonValueBlot(_, _)

RECURSIVE XorBits(_, _, _)
\* a ^ b over the n lowest bits.
XorBits(a, b, n) ==
    IF n = 0 THEN 0 ELSE ((a + b) % 2) + 2 * XorBits(a \div 2, b \div 2, n - 1)

\* a ^ b of two bytes, at a * 256 + b + 1.
XorTable == [i \in 1..65536 |-> XorBits((i - 1) \div 256, (i - 1) % 256, 8)] \o <<>>

\* a ^ b of two limbs, byte by byte.
Xor16(a, b) ==
    XorTable[(a \div 256) * 256 + (b \div 256) + 1] * 256
        + XorTable[(a % 256) * 256 + (b % 256) + 1]

\* a & b: a + b counts the common bits twice, a ^ b not at all.
And16(a, b) == (a + b - Xor16(a, b)) \div 2

\* !a & b
AndNot16(a, b) == (b - a + Xor16(a, b)) \div 2

\* The limb shifted right by b bits, the b low bits of from above it.
ShiftIn(from, limb, b) == (limb \div 2 ^ b) + (from % 2 ^ b) * 2 ^ (16 - b)

\* a ^ b
Xor32(a, b) == Op("Xor32", <<a, b>>)

\* a & b
And32(a, b) == Op("And32", <<a, b>>)

\* a.wrapping_add(b)
Add32(a, b) == Op("Add32", <<a, b>>)

\* w.rotate_right(r), r in 0..31
Rotr32(w, r) == Op("Rotr32", <<w, r>>)

\* w.rotate_left(r), r in 1..31
Rotl32(w, r) == Op("Rotl32", <<w, r>>)

\* w >> r, r in 0..15
Shr32(w, r) == Op("Shr32", <<w, r>>)

\* (x & y) ^ (!x & z)
Ch32(x, y, z) == Op("Ch32", <<x, y, z>>)

\* (x & y) ^ (x & z) ^ (y & z)
Maj32(x, y, z) == Op("Maj32", <<x, y, z>>)

\* a ^ b
Xor64(a, b) == Op("Xor64", <<a, b>>)

\* a & b
And64(a, b) == Op("And64", <<a, b>>)

\* !a & b
AndNot64(a, b) == Op("AndNot64", <<a, b>>)

\* !a
Not64(a) == <<65535 - a[1], 65535 - a[2], 65535 - a[3], 65535 - a[4]>>

\* !a
Not32(a) == <<65535 - a[1], 65535 - a[2]>>

\* a.wrapping_add(b)
Add64(a, b) == Op("Add64", <<a, b>>)

\* w.rotate_right(r), r in 0..63: limb i of the result.
RotrLimb64(w, i, r) ==
    ShiftIn(w[((i + 6 - r \div 16) % 4) + 1], w[((i + 7 - r \div 16) % 4) + 1], r % 16)

\* w.rotate_right(r), r in 0..63
Rotr64(w, r) == Op("Rotr64", <<w, r>>)

\* w.rotate_left(r), r in 0..63
Rotl64(w, r) == Op("Rotl64", <<w, r>>)

\* w >> r, r in 0..15
Shr64(w, r) == Op("Shr64", <<w, r>>)

Ch64(x, y, z) == Op("Ch64", <<x, y, z>>)

Maj64(x, y, z) == Op("Maj64", <<x, y, z>>)

\* The word read from the bytes after offset o: big-endian, little-endian.
BeWord32(b, o) == <<b[o + 1] * 256 + b[o + 2], b[o + 3] * 256 + b[o + 4]>>

BeWord64(b, o) ==
    <<b[o + 1] * 256 + b[o + 2], b[o + 3] * 256 + b[o + 4],
      b[o + 5] * 256 + b[o + 6], b[o + 7] * 256 + b[o + 8]>>

LeWord32(b, o) == <<b[o + 4] * 256 + b[o + 3], b[o + 2] * 256 + b[o + 1]>>

LeWord64(b, o) ==
    <<b[o + 8] * 256 + b[o + 7], b[o + 6] * 256 + b[o + 5],
      b[o + 4] * 256 + b[o + 3], b[o + 2] * 256 + b[o + 1]>>

\* The first n bytes of words of the given number of limbs, each word
\* big-endian.
BytesBe(words, limbs, n) ==
    [i \in 1..n |->
        LET limb == words[((i - 1) \div (2 * limbs)) + 1][(((i - 1) \div 2) % limbs) + 1]
        IN IF i % 2 = 1 THEN limb \div 256 ELSE limb % 256] \o <<>>

\* The same, each word little-endian.
BytesLe(words, limbs, n) ==
    [i \in 1..n |->
        LET limb == words[((i - 1) \div (2 * limbs)) + 1]
                         [limbs - (((i - 1) % (2 * limbs)) \div 2)]
        IN IF i % 2 = 1 THEN limb % 256 ELSE limb \div 256] \o <<>>

\* The padding of SHA-1 and SHA-2: the byte 0x80, zeros up to the last
\* lengthBytes bytes of a block, and the number of bits of the message,
\* big-endian.
MdPad(msg, block, lengthBytes) ==
    msg \o <<128>>
        \o Fill((2 * block - 1 - lengthBytes - (Len(msg) % block)) % block, 0)
        \o Fill(lengthBytes - 5, 0)
        \o <<Len(msg) \div 536870912, (Len(msg) \div 2097152) % 256,
             (Len(msg) \div 8192) % 256, (Len(msg) \div 32) % 256,
             (Len(msg) % 32) * 8>>

(* SHA-1 (sha-1 crate) *)

Sha1H == <<
      <<26437, 8961>>, <<61389, 43913>>, <<39098, 56574>>, <<4146, 21622>>, <<50130, 57840>>>>

Sha1K == <<
      <<23170, 31129>>, <<28377, 60321>>, <<36635, 48348>>, <<51810, 49622>>>>

\* The words of a block up to the n-th:
\* w[t] = (w[t-3] ^ w[t-8] ^ w[t-14] ^ w[t-16]).rotate_left(1).
Sha1Schedule(ws, n) == Op("Sha1Schedule", <<ws, n>>)

\* The function of round t, 1..80.
Sha1F(t, b, c, d) == Op("Sha1F", <<t, b, c, d>>)

\* Round t on the state <<a, b, c, d, e>>.
Sha1Round(s, t, w) == Op("Sha1Round", <<s, t, w>>)

\* The rounds from..to, one after the other.
Sha1Rounds(s, ws, from, to) == Op("Sha1Rounds", <<s, ws, from, to>>)

\* The compression of one 64-byte block into the state h.
Sha1Compress(h, block) == Op("Sha1Compress", <<h, block>>)

\* The blocks from..to of the padded message, one after the other.
Sha1Blocks(h, padded, from, to) == Op("Sha1Blocks", <<h, padded, from, to>>)

\* sha1::Sha1: the digest of the bytes absorbed.
Sha1Digest(msg) == Op("Sha1Digest", <<msg>>)

(* SHA-256 (sha2 crate) *)

Sha256H == <<
      <<27145, 58983>>, <<47975, 44677>>, <<15470, 62322>>, <<42319, 62778>>,
      <<20750, 21119>>, <<39685, 26764>>, <<8067, 55723>>, <<23520, 52505>>>>

Sha256K == <<
      <<17034, 12184>>, <<28983, 17553>>, <<46528, 64463>>, <<59829, 56229>>,
      <<14678, 49755>>, <<23025, 4593>>, <<37439, 33444>>, <<43804, 24277>>,
      <<55303, 43672>>, <<4739, 23297>>, <<9265, 34238>>, <<21772, 32195>>,
      <<29374, 23924>>, <<32990, 45566>>, <<39900, 1703>>, <<49563, 61812>>,
      <<58523, 27073>>, <<61374, 18310>>, <<4033, 40390>>, <<9228, 41420>>,
      <<11753, 11375>>, <<19060, 33962>>, <<23728, 43484>>, <<30457, 35034>>,
      <<38974, 20818>>, <<43057, 50797>>, <<45059, 10184>>, <<48985, 32711>>,
      <<50912, 3059>>, <<54695, 37191>>, <<1738, 25425>>, <<5161, 10599>>,
      <<10167, 2693>>, <<11803, 8504>>, <<19756, 28156>>, <<21304, 3347>>,
      <<25866, 29524>>, <<30314, 2747>>, <<33218, 51502>>, <<37490, 11397>>,
      <<41663, 59553>>, <<43034, 26187>>, <<49739, 35696>>, <<51052, 20899>>,
      <<53650, 59417>>, <<54937, 1572>>, <<62478, 13701>>, <<4202, 41072>>,
      <<6564, 49430>>, <<7735, 27656>>, <<10056, 30540>>, <<13488, 48309>>,
      <<14620, 3251>>, <<20184, 43594>>, <<23452, 51791>>, <<26670, 28659>>,
      <<29839, 33518>>, <<30885, 25455>>, <<33992, 30740>>, <<36039, 520>>,
      <<37054, 65530>>, <<42064, 27883>>, <<48889, 41975>>, <<50801, 30962>>>>

\* The words of a block up to the n-th:
\* w[t] = s1(w[t-2]) + w[t-7] + s0(w[t-15]) + w[t-16].
Sha256Schedule(ws, n) == Op("Sha256Schedule", <<ws, n>>)

\* A round on the state <<a, b, c, d, e, f, g, h>>.
Sha256Round(s, k, w) == Op("Sha256Round", <<s, k, w>>)

Sha256Rounds(s, ws, from, to) == Op("Sha256Rounds", <<s, ws, from, to>>)

Sha256Compress(h, block) == Op("Sha256Compress", <<h, block>>)

Sha256Blocks(h, padded, from, to) == Op("Sha256Blocks", <<h, padded, from, to>>)

\* sha2::Sha256: the digest of the bytes absorbed.
Sha256Digest(msg) == Op("Sha256Digest", <<msg>>)

(* SHA-512 (sha2 crate) *)

Sha512H == <<
      <<27145, 58983, 62396, 51464>>, <<47975, 44677, 33994, 42811>>,
      <<15470, 62322, 65172, 63531>>, <<42319, 62778, 24349, 14065>>,
      <<20750, 21119, 44518, 33489>>, <<39685, 26764, 11070, 27679>>,
      <<8067, 55723, 64321, 48491>>, <<23520, 52505, 4990, 8569>>>>

Sha512K == <<
      <<17034, 12184, 55080, 44578>>, <<28983, 17553, 9199, 26061>>,
      <<46528, 64463, 60493, 15151>>, <<59829, 56229, 33161, 56252>>,
      <<14678, 49755, 62280, 46392>>, <<23025, 4593, 46597, 53273>>,
      <<37439, 33444, 44825, 20379>>, <<43804, 24277, 55917, 33048>>,
      <<55303, 43672, 41731, 578>>, <<4739, 23297, 17776, 28606>>,
      <<9265, 34238, 20196, 45708>>, <<21772, 32195, 54783, 46306>>,
      <<29374, 23924, 62075, 35183>>, <<32990, 45566, 15126, 38577>>,
      <<39900, 1703, 9671, 4661>>, <<49563, 61812, 53097, 9876>>,
      <<58523, 27073, 40689, 19154>>, <<61374, 18310, 14415, 9699>>,
      <<4033, 40390, 35724, 54709>>, <<9228, 41420, 30636, 40037>>,
      <<11753, 11375, 22827, 629>>, <<19060, 33962, 28326, 58499>>,
      <<23728, 43484, 48449, 64468>>, <<30457, 35034, 33553, 21429>>,
      <<38974, 20818, 61030, 57259>>, <<43057, 50797, 11700, 12816>>,
      <<45059, 10184, 39163, 8511>>, <<48985, 32711, 48879, 3812>>,
      <<50912, 3059, 15784, 36802>>, <<54695, 37191, 37642, 42789>>,
      <<1738, 25425, 57347, 33391>>, <<5161, 10599, 2574, 28272>>,
      <<10167, 2693, 18130, 12284>>, <<11803, 8504, 23590, 51494>>,
      <<19756, 28156, 23236, 10989>>, <<21304, 3347, 40341, 46047>>,
      <<25866, 29524, 35759, 25566>>, <<30314, 2747, 15479, 45736>>,
      <<33218, 51502, 18413, 44774>>, <<37490, 11397, 5250, 13627>>,
      <<41663, 59553, 19697, 868>>, <<43034, 26187, 48194, 12289>>,
      <<49739, 35696, 53496, 38801>>, <<51052, 20899, 1620, 48688>>,
      <<53650, 59417, 55023, 21016>>, <<54937, 1572, 21861, 43280>>,
      <<62478, 13701, 22385, 8234>>, <<4202, 41072, 12987, 53688>>,
      <<6564, 49430, 47314, 53448>>, <<7735, 27656, 20801, 43859>>,
      <<10056, 30540, 57230, 60313>>, <<13488, 48309, 57755, 18600>>,
      <<14620, 3251, 50633, 23139>>, <<20184, 43594, 58177, 35531>>,
      <<23452, 51791, 30563, 58227>>, <<26670, 28659, 54962, 47267>>,
      <<29839, 33518, 24047, 45820>>, <<30885, 25455, 17175, 12128>>,
      <<33992, 30740, 41456, 43890>>, <<36039, 520, 6756, 14828>>,
      <<37054, 65530, 9059, 7720>>, <<42064, 27883, 56962, 48617>>,
      <<48889, 41975, 45766, 30997>>, <<50801, 30962, 58226, 21291>>,
      <<51751, 16078, 59942, 24988>>, <<53638, 47303, 8640, 49671>>,
      <<60122, 32214, 52704, 60190>>, <<62845, 20351, 61038, 53624>>,
      <<1776, 26538, 29207, 28602>>, <<2659, 32197, 41672, 39078>>,
      <<4415, 38916, 48889, 3502>>, <<7025, 2869, 4892, 18203>>,
      <<10459, 30709, 8964, 32132>>, <<13002, 43899, 16583, 9363>>,
      <<15518, 48650, 5577, 48828>>, <<17181, 26564, 39952, 3404>>,
      <<19653, 54462, 52030, 17078>>, <<22911, 10652, 64613, 32298>>,
      <<24523, 28587, 15062, 64236>>, <<27716, 6540, 19015, 22551>>>>

Sha512Schedule(ws, n) == Op("Sha512Schedule", <<ws, n>>)

Sha512Round(s, k, w) == Op("Sha512Round", <<s, k, w>>)

Sha512Rounds(s, ws, from, to) == Op("Sha512Rounds", <<s, ws, from, to>>)

Sha512Compress(h, block) == Op("Sha512Compress", <<h, block>>)

Sha512Blocks(h, padded, from, to) == Op("Sha512Blocks", <<h, padded, from, to>>)

\* sha2::Sha512: the digest of the bytes absorbed.
Sha512Digest(msg) == Op("Sha512Digest", <<msg>>)

(* SHA-3 (sha3 crate): Keccak-f[1600] on 25 lanes, lane (x, y) at x + 5y + 1 *)

KeccakRC == <<
      <<0, 0, 0, 1>>, <<0, 0, 0, 32898>>,
      <<32768, 0, 0, 32906>>, <<32768, 0, 32768, 32768>>,
      <<0, 0, 0, 32907>>, <<0, 0, 32768, 1>>,
      <<32768, 0, 32768, 32897>>, <<32768, 0, 0, 32777>>,
      <<0, 0, 0, 138>>, <<0, 0, 0, 136>>,
      <<0, 0, 32768, 32777>>, <<0, 0, 32768, 10>>,
      <<0, 0, 32768, 32907>>, <<32768, 0, 0, 139>>,
      <<32768, 0, 0, 32905>>, <<32768, 0, 0, 32771>>,
      <<32768, 0, 0, 32770>>, <<32768, 0, 0, 128>>,
      <<0, 0, 0, 32778>>, <<32768, 0, 32768, 10>>,
      <<32768, 0, 32768, 32897>>, <<32768, 0, 0, 32896>>,
      <<0, 0, 32768, 1>>, <<32768, 0, 32768, 32776>>>>

\* The rotation of each lane.
KeccakRho == <<
      0, 1, 62, 28, 27, 36, 44, 6, 55, 20, 3, 10, 43, 25, 39, 41, 45, 15, 21, 8, 18, 2, 61, 56, 14>>

\* The lane that pi moves to each place.
KeccakPi == <<
      1, 7, 13, 19, 25, 4, 10, 11, 17, 23, 2, 8, 14, 20, 21, 5, 6, 12, 18, 24, 3, 9, 15, 16, 22>>

\* One round: theta, rho and pi, chi, iota.
KeccakRound(a, rc) == Op("KeccakRound", <<a, rc>>)

\* The rounds from..to, one after the other.
KeccakRounds(a, from, to) == Op("KeccakRounds", <<a, from, to>>)

\* A block of rate bytes is xored into the state, and the state permuted.
KeccakAbsorb(a, block, rate) == Op("KeccakAbsorb", <<a, block, rate>>)

KeccakBlocks(a, padded, rate, from, to) == Op("KeccakBlocks", <<a, padded, rate, from, to>>)

\* The padding of SHA-3: the bits 01 and 1, zeros, and a last 1 at the end of
\* the block.
Sha3Pad(msg, rate) ==
    IF Len(msg) % rate = rate - 1 THEN msg \o <<134>>
    ELSE msg \o <<6>> \o Fill(rate - 2 - (Len(msg) % rate), 0) \o <<128>>

\* sha3::Sha3_224, Sha3_256, Sha3_384, Sha3_512: the digest of n bytes of the
\* bytes absorbed, the rate being 200 - 2n bytes.
Sha3Digest(msg, n) == Op("Sha3Digest", <<msg, n>>)

(* BLAKE2 (blake2 crate) *)

\* The message words of each round.
Blake2Sigma == <<
      <<1, 2, 3, 4, 5, 6, 7, 8, 9, 10, 11, 12, 13, 14, 15, 16>>,
      <<15, 11, 5, 9, 10, 16, 14, 7, 2, 13, 1, 3, 12, 8, 6, 4>>,
      <<12, 9, 13, 1, 6, 3, 16, 14, 11, 15, 4, 7, 8, 2, 10, 5>>,
      <<8, 10, 4, 2, 14, 13, 12, 15, 3, 7, 6, 11, 5, 1, 16, 9>>,
      <<10, 1, 6, 8, 3, 5, 11, 16, 15, 2, 12, 13, 7, 9, 4, 14>>,
      <<3, 13, 7, 11, 1, 12, 9, 4, 5, 14, 8, 6, 16, 15, 2, 10>>,
      <<13, 6, 2, 16, 15, 14, 5, 11, 1, 8, 7, 4, 10, 3, 9, 12>>,
      <<14, 12, 8, 15, 13, 2, 4, 10, 6, 1, 16, 5, 9, 7, 3, 11>>,
      <<7, 16, 15, 10, 12, 4, 1, 9, 13, 3, 14, 8, 2, 5, 11, 6>>,
      <<11, 3, 9, 5, 8, 7, 2, 6, 16, 12, 10, 15, 4, 13, 14, 1>>>>

Blake2bG(a, b, c, d, x, y) == Op("Blake2bG", <<a, b, c, d, x, y>>)

Blake2sG(a, b, c, d, x, y) == Op("Blake2sG", <<a, b, c, d, x, y>>)

\* A round on the 16 words of v: the G named g on the four columns, then on the four
\* diagonals, with the message words m in the order s.
Blake2Round(g, v, m, s) == Op("Blake2Round", <<g, v, m, s>>)

Blake2bRounds(v, m, from, to) == Op("Blake2bRounds", <<v, m, from, to>>)

Blake2sRounds(v, m, from, to) == Op("Blake2sRounds", <<v, m, from, to>>)

\* The compression of a 128-byte block into h, t bytes having been absorbed
\* with it.
Blake2bCompress(h, block, t, last) == Op("Blake2bCompress", <<h, block, t, last>>)

\* The compression of a 64-byte block.
Blake2sCompress(h, block, t, last) == Op("Blake2sCompress", <<h, block, t, last>>)

\* Block i of size bytes of the message, the last one filled with zeros.
Blake2Block(msg, size, i) ==
    IF size * i <= Len(msg) THEN SubSeq(msg, size * (i - 1) + 1, size * i)
    ELSE SubSeq(msg, size * (i - 1) + 1, Len(msg)) \o Fill(size * i - Len(msg), 0)

\* The number of blocks of the message: one at least.
Blake2Count(msg, size) == IF msg = <<>> THEN 1 ELSE (Len(msg) + size - 1) \div size

Blake2bBlocks(h, msg, from, to) == Op("Blake2bBlocks", <<h, msg, from, to>>)

Blake2sBlocks(h, msg, from, to) == Op("Blake2sBlocks", <<h, msg, from, to>>)

\* blake2::Blake2b: no key, 64 bytes of output (the parameter word 0x01010040).
Blake2bDigest(msg) == Op("Blake2bDigest", <<msg>>)

\* blake2::Blake2s: no key, 32 bytes of output (the parameter word 0x01010020).
Blake2sDigest(msg) == Op("Blake2sDigest", <<msg>>)

\* Digest::result: the digest of the bytes absorbed, by the Digester of a.
Result(a, absorbed) == Op("Result", <<a, absorbed>>)

\* The operation named fn on the arguments args.
Op(fn, args) ==
    CASE fn = "Xor32" ->
           LET a == args[1]
               b == args[2]
           IN  [i \in 1..2 |-> Xor16(a[i], b[i])] \o <<>>
      [] fn = "And32" ->
           LET a == args[1]
               b == args[2]
           IN  [i \in 1..2 |-> And16(a[i], b[i])] \o <<>>
      [] fn = "Add32" ->
           LET a == args[1]
               b == args[2]
           IN  LET low == a[2] + b[2] IN <<(a[1] + b[1] + low \div 65536) % 65536, low % 65536>>
      [] fn = "Rotr32" ->
           LET w == args[1]
               r == args[2]
           IN  IF r < 16 THEN <<ShiftIn(w[2], w[1], r), ShiftIn(w[1], w[2], r)>>
               ELSE <<ShiftIn(w[1], w[2], r - 16), ShiftIn(w[2], w[1], r - 16)>>
      [] fn = "Rotl32" ->
           LET w == args[1]
               r == args[2]
           IN  Rotr32(w, 32 - r)
      [] fn = "Shr32" ->
           LET w == args[1]
               r == args[2]
           IN  <<w[1] \div 2 ^ r, ShiftIn(w[1], w[2], r)>>
      [] fn = "Ch32" ->
           LET x == args[1]
               y == args[2]
               z == args[3]
           IN  Xor32(z, And32(x, Xor32(y, z)))
      [] fn = "Maj32" ->
           LET x == args[1]
               y == args[2]
               z == args[3]
           IN  Xor32(And32(x, y), And32(z, Xor32(x, y)))
      [] fn = "Xor64" ->
           LET a == args[1]
               b == args[2]
           IN  [i \in 1..4 |-> Xor16(a[i], b[i])] \o <<>>
      [] fn = "And64" ->
           LET a == args[1]
               b == args[2]
           IN  [i \in 1..4 |-> And16(a[i], b[i])] \o <<>>
      [] fn = "AndNot64" ->
           LET a == args[1]
               b == args[2]
           IN  [i \in 1..4 |-> AndNot16(a[i], b[i])] \o <<>>
      [] fn = "Add64" ->
           LET a == args[1]
               b == args[2]
           IN  LET l4 == a[4] + b[4]
                   l3 == a[3] + b[3] + l4 \div 65536
                   l2 == a[2] + b[2] + l3 \div 65536
               IN <<(a[1] + b[1] + l2 \div 65536) % 65536, l2 % 65536, l3 % 65536, l4 % 65536>>
      [] fn = "Rotr64" ->
           LET w == args[1]
               r == args[2]
           IN  [i \in 1..4 |-> RotrLimb64(w, i, r)] \o <<>>
      [] fn = "Rotl64" ->
           LET w == args[1]
               r == args[2]
           IN  Rotr64(w, (64 - r) % 64)
      [] fn = "Shr64" ->
           LET w == args[1]
               r == args[2]
           IN  <<w[1] \div 2 ^ r, ShiftIn(w[1], w[2], r), ShiftIn(w[2], w[3], r),
                 ShiftIn(w[3], w[4], r)>>
      [] fn = "Ch64" ->
           LET x == args[1]
               y == args[2]
               z == args[3]
           IN  Xor64(z, And64(x, Xor64(y, z)))
      [] fn = "Maj64" ->
           LET x == args[1]
               y == args[2]
               z == args[3]
           IN  Xor64(And64(x, y), And64(z, Xor64(x, y)))
      [] fn = "Sha1Schedule" ->
           LET ws == args[1]
               n == args[2]
           IN  IF Len(ws) >= n THEN ws
               ELSE IF Len(ws) + 1 = n
               THEN Append(ws, Rotl32(Xor32(Xor32(ws[n - 3], ws[n - 8]),
                                            Xor32(ws[n - 14], ws[n - 16])), 1))
               ELSE CHOOSE r \in {Sha1Schedule(half, n) :
                                  half \in {Sha1Schedule(ws, (Len(ws) + n) \div 2)}} : TRUE
      [] fn = "Sha1F" ->
           LET t == args[1]
               b == args[2]
               c == args[3]
               d == args[4]
           IN  IF t <= 20 THEN Ch32(b, c, d)
               ELSE IF t > 40 /\ t <= 60 THEN Maj32(b, c, d)
               ELSE Xor32(Xor32(b, c), d)
      [] fn = "Sha1Round" ->
           LET s == args[1]
               t == args[2]
               w == args[3]
           IN  <<Add32(Add32(Add32(Rotl32(s[1], 5), Sha1F(t, s[2], s[3], s[4])),
                             Add32(s[5], Sha1K[((t - 1) \div 20) + 1])), w),
                 s[1], Rotl32(s[2], 30), s[3], s[4]>>
      [] fn = "Sha1Rounds" ->
           LET s == args[1]
               ws == args[2]
               from == args[3]
               to == args[4]
           IN  IF from = to THEN Sha1Round(s, from, ws[from])
               ELSE CHOOSE r \in {Sha1Rounds(half, ws, ((from + to) \div 2) + 1, to) :
                                  half \in {Sha1Rounds(s, ws, from, (from + to) \div 2)}} : TRUE
      [] fn = "Sha1Compress" ->
           LET h == args[1]
               block == args[2]
           IN  LET ws == Sha1Schedule([i \in 1..16 |-> BeWord32(block, 4 * (i - 1))] \o <<>>, 80)
                   s == Sha1Rounds(h, ws, 1, 80)
               IN [i \in 1..5 |-> Add32(h[i], s[i])] \o <<>>
      [] fn = "Sha1Blocks" ->
           LET h == args[1]
               padded == args[2]
               from == args[3]
               to == args[4]
           IN  IF from = to THEN Sha1Compress(h, SubSeq(padded, 64 * from - 63, 64 * from))
               ELSE CHOOSE r \in {Sha1Blocks(half, padded, ((from + to) \div 2) + 1, to) :
                                  half \in {Sha1Blocks(h, padded, from, (from + to) \div 2)}} : TRUE
      [] fn = "Sha1Digest" ->
           LET msg == args[1]
           IN  LET padded == MdPad(msg, 64, 8)
               IN BytesBe(Sha1Blocks(Sha1H, padded, 1, Len(padded) \div 64), 2, 20)
      [] fn = "Sha256Schedule" ->
           LET ws == args[1]
               n == args[2]
           IN  IF Len(ws) >= n THEN ws
               ELSE IF Len(ws) + 1 = n
               THEN Append(ws,
                      Add32(Add32(Xor32(Xor32(Rotr32(ws[n - 2], 17), Rotr32(ws[n - 2], 19)),
                                        Shr32(ws[n - 2], 10)),
                                  ws[n - 7]),
                            Add32(Xor32(Xor32(Rotr32(ws[n - 15], 7), Rotr32(ws[n - 15], 18)),
                                        Shr32(ws[n - 15], 3)),
                                  ws[n - 16])))
               ELSE CHOOSE r \in {Sha256Schedule(half, n) :
                                  half \in {Sha256Schedule(ws, (Len(ws) + n) \div 2)}} : TRUE
      [] fn = "Sha256Round" ->
           LET s == args[1]
               k == args[2]
               w == args[3]
           IN  LET t1 == Add32(Add32(Add32(s[8], Xor32(Xor32(Rotr32(s[5], 6), Rotr32(s[5], 11)),
                                                       Rotr32(s[5], 25))),
                                     Add32(Ch32(s[5], s[6], s[7]), k)), w)
                   t2 == Add32(Xor32(Xor32(Rotr32(s[1], 2), Rotr32(s[1], 13)), Rotr32(s[1], 22)),
                               Maj32(s[1], s[2], s[3]))
               IN <<Add32(t1, t2), s[1], s[2], s[3], Add32(s[4], t1), s[5], s[6], s[7]>>
      [] fn = "Sha256Rounds" ->
           LET s == args[1]
               ws == args[2]
               from == args[3]
               to == args[4]
           IN  IF from = to THEN Sha256Round(s, Sha256K[from], ws[from])
               ELSE CHOOSE r \in {Sha256Rounds(half, ws, ((from + to) \div 2) + 1, to) :
                                  half \in {Sha256Rounds(s, ws, from, (from + to) \div 2)}} : TRUE
      [] fn = "Sha256Compress" ->
           LET h == args[1]
               block == args[2]
           IN  LET ws == Sha256Schedule([i \in 1..16 |-> BeWord32(block, 4 * (i - 1))] \o <<>>, 64)
                   s == Sha256Rounds(h, ws, 1, 64)
               IN [i \in 1..8 |-> Add32(h[i], s[i])] \o <<>>
      [] fn = "Sha256Blocks" ->
           LET h == args[1]
               padded == args[2]
               from == args[3]
               to == args[4]
           IN  IF from = to THEN Sha256Compress(h, SubSeq(padded, 64 * from - 63, 64 * from))
               ELSE CHOOSE r \in {Sha256Blocks(half, padded, ((from + to) \div 2) + 1, to) :
                                  half \in {Sha256Blocks(h, padded, from, (from + to) \div 2)}} : TRUE
      [] fn = "Sha256Digest" ->
           LET msg == args[1]
           IN  LET padded == MdPad(msg, 64, 8)
               IN BytesBe(Sha256Blocks(Sha256H, padded, 1, Len(padded) \div 64), 2, 32)
      [] fn = "Sha512Schedule" ->
           LET ws == args[1]
               n == args[2]
           IN  IF Len(ws) >= n THEN ws
               ELSE IF Len(ws) + 1 = n
               THEN Append(ws,
                      Add64(Add64(Xor64(Xor64(Rotr64(ws[n - 2], 19), Rotr64(ws[n - 2], 61)),
                                        Shr64(ws[n - 2], 6)),
                                  ws[n - 7]),
                            Add64(Xor64(Xor64(Rotr64(ws[n - 15], 1), Rotr64(ws[n - 15], 8)),
                                        Shr64(ws[n - 15], 7)),
                                  ws[n - 16])))
               ELSE CHOOSE r \in {Sha512Schedule(half, n) :
                                  half \in {Sha512Schedule(ws, (Len(ws) + n) \div 2)}} : TRUE
      [] fn = "Sha512Round" ->
           LET s == args[1]
               k == args[2]
               w == args[3]
           IN  LET t1 == Add64(Add64(Add64(s[8], Xor64(Xor64(Rotr64(s[5], 14), Rotr64(s[5], 18)),
                                                       Rotr64(s[5], 41))),
                                     Add64(Ch64(s[5], s[6], s[7]), k)), w)
                   t2 == Add64(Xor64(Xor64(Rotr64(s[1], 28), Rotr64(s[1], 34)), Rotr64(s[1], 39)),
                               Maj64(s[1], s[2], s[3]))
               IN <<Add64(t1, t2), s[1], s[2], s[3], Add64(s[4], t1), s[5], s[6], s[7]>>
      [] fn = "Sha512Rounds" ->
           LET s == args[1]
               ws == args[2]
               from == args[3]
               to == args[4]
           IN  IF from = to THEN Sha512Round(s, Sha512K[from], ws[from])
               ELSE CHOOSE r \in {Sha512Rounds(half, ws, ((from + to) \div 2) + 1, to) :
                                  half \in {Sha512Rounds(s, ws, from, (from + to) \div 2)}} : TRUE
      [] fn = "Sha512Compress" ->
           LET h == args[1]
               block == args[2]
           IN  LET ws == Sha512Schedule([i \in 1..16 |-> BeWord64(block, 8 * (i - 1))] \o <<>>, 80)
                   s == Sha512Rounds(h, ws, 1, 80)
               IN [i \in 1..8 |-> Add64(h[i], s[i])] \o <<>>
      [] fn = "Sha512Blocks" ->
           LET h == args[1]
               padded == args[2]
               from == args[3]
               to == args[4]
           IN  IF from = to THEN Sha512Compress(h, SubSeq(padded, 128 * from - 127, 128 * from))
               ELSE CHOOSE r \in {Sha512Blocks(half, padded, ((from + to) \div 2) + 1, to) :
                                  half \in {Sha512Blocks(h, padded, from, (from + to) \div 2)}} : TRUE
      [] fn = "Sha512Digest" ->
           LET msg == args[1]
           IN  LET padded == MdPad(msg, 128, 16)
               IN BytesBe(Sha512Blocks(Sha512H, padded, 1, Len(padded) \div 128), 4, 64)
      [] fn = "KeccakRound" ->
           LET a == args[1]
               rc == args[2]
           IN  LET c == [x \in 1..5 |->
                            Xor64(Xor64(Xor64(Xor64(a[x], a[x + 5]), a[x + 10]), a[x + 15]),
                                  a[x + 20])] \o <<>>
                   d == [x \in 1..5 |->
                            Xor64(c[((x + 3) % 5) + 1], Rotl64(c[(x % 5) + 1], 1))] \o <<>>
                   theta == [i \in 1..25 |-> Xor64(a[i], d[((i - 1) % 5) + 1])] \o <<>>
                   b == [i \in 1..25 |-> Rotl64(theta[KeccakPi[i]], KeccakRho[KeccakPi[i]])] \o <<>>
                   chi == [i \in 1..25 |->
                              Xor64(b[i], AndNot64(b[i - ((i - 1) % 5) + (i % 5)],
                                                   b[i - ((i - 1) % 5) + ((i + 1) % 5)]))] \o <<>>
               IN <<Xor64(chi[1], rc)>> \o Tail(chi)
      [] fn = "KeccakRounds" ->
           LET a == args[1]
               from == args[2]
               to == args[3]
           IN  IF from = to THEN KeccakRound(a, KeccakRC[from])
               ELSE CHOOSE r \in {KeccakRounds(half, ((from + to) \div 2) + 1, to) :
                                  half \in {KeccakRounds(a, from, (from + to) \div 2)}} : TRUE
      [] fn = "KeccakAbsorb" ->
           LET a == args[1]
               block == args[2]
               rate == args[3]
           IN  KeccakRounds([i \in 1..25 |->
                                IF 8 * i <= rate THEN Xor64(a[i], LeWord64(block, 8 * (i - 1)))
                                ELSE a[i]] \o <<>>, 1, 24)
      [] fn = "KeccakBlocks" ->
           LET a == args[1]
               padded == args[2]
               rate == args[3]
               from == args[4]
               to == args[5]
           IN  IF from = to
               THEN KeccakAbsorb(a, SubSeq(padded, rate * (from - 1) + 1, rate * from), rate)
               ELSE CHOOSE r \in {KeccakBlocks(half, padded, rate, ((from + to) \div 2) + 1, to) :
                                  half \in {KeccakBlocks(a, padded, rate, from, (from + to) \div 2)}} :
                        TRUE
      [] fn = "Sha3Digest" ->
           LET msg == args[1]
               n == args[2]
           IN  LET padded == Sha3Pad(msg, 200 - 2 * n)
               IN BytesLe(KeccakBlocks(Fill(25, <<0, 0, 0, 0>>), padded, 200 - 2 * n, 1,
                                       Len(padded) \div (200 - 2 * n)), 4, n)
      [] fn = "Blake2bG" ->
           LET a == args[1]
               b == args[2]
               c == args[3]
               d == args[4]
               x == args[5]
               y == args[6]
           IN  LET a1 == Add64(Add64(a, b), x)
                   d1 == Rotr64(Xor64(d, a1), 32)
                   c1 == Add64(c, d1)
                   b1 == Rotr64(Xor64(b, c1), 24)
                   a2 == Add64(Add64(a1, b1), y)
                   d2 == Rotr64(Xor64(d1, a2), 16)
                   c2 == Add64(c1, d2)
                   b2 == Rotr64(Xor64(b1, c2), 63)
               IN <<a2, b2, c2, d2>>
      [] fn = "Blake2sG" ->
           LET a == args[1]
               b == args[2]
               c == args[3]
               d == args[4]
               x == args[5]
               y == args[6]
           IN  LET a1 == Add32(Add32(a, b), x)
                   d1 == Rotr32(Xor32(d, a1), 16)
                   c1 == Add32(c, d1)
                   b1 == Rotr32(Xor32(b, c1), 12)
                   a2 == Add32(Add32(a1, b1), y)
                   d2 == Rotr32(Xor32(d1, a2), 8)
                   c2 == Add32(c1, d2)
                   b2 == Rotr32(Xor32(b1, c2), 7)
               IN <<a2, b2, c2, d2>>
      [] fn = "Blake2Round" ->
           LET g == args[1]
               v == args[2]
               m == args[3]
               s == args[4]
           IN  LET c1 == Op(g, <<v[1], v[5], v[9], v[13], m[s[1]], m[s[2]]>>)
                   c2 == Op(g, <<v[2], v[6], v[10], v[14], m[s[3]], m[s[4]]>>)
                   c3 == Op(g, <<v[3], v[7], v[11], v[15], m[s[5]], m[s[6]]>>)
                   c4 == Op(g, <<v[4], v[8], v[12], v[16], m[s[7]], m[s[8]]>>)
                   d1 == Op(g, <<c1[1], c2[2], c3[3], c4[4], m[s[9]], m[s[10]]>>)
                   d2 == Op(g, <<c2[1], c3[2], c4[3], c1[4], m[s[11]], m[s[12]]>>)
                   d3 == Op(g, <<c3[1], c4[2], c1[3], c2[4], m[s[13]], m[s[14]]>>)
                   d4 == Op(g, <<c4[1], c1[2], c2[3], c3[4], m[s[15]], m[s[16]]>>)
               IN <<d1[1], d2[1], d3[1], d4[1], d4[2], d1[2], d2[2], d3[2],
                    d3[3], d4[3], d1[3], d2[3], d2[4], d3[4], d4[4], d1[4]>>
      [] fn = "Blake2bRounds" ->
           LET v == args[1]
               m == args[2]
               from == args[3]
               to == args[4]
           IN  IF from = to THEN Blake2Round("Blake2bG", v, m, Blake2Sigma[((from - 1) % 10) + 1])
               ELSE CHOOSE r \in {Blake2bRounds(half, m, ((from + to) \div 2) + 1, to) :
                                  half \in {Blake2bRounds(v, m, from, (from + to) \div 2)}} : TRUE
      [] fn = "Blake2sRounds" ->
           LET v == args[1]
               m == args[2]
               from == args[3]
               to == args[4]
           IN  IF from = to THEN Blake2Round("Blake2sG", v, m, Blake2Sigma[((from - 1) % 10) + 1])
               ELSE CHOOSE r \in {Blake2sRounds(half, m, ((from + to) \div 2) + 1, to) :
                                  half \in {Blake2sRounds(v, m, from, (from + to) \div 2)}} : TRUE
      [] fn = "Blake2bCompress" ->
           LET h == args[1]
               block == args[2]
               t == args[3]
               last == args[4]
           IN  LET m == [i \in 1..16 |-> LeWord64(block, 8 * (i - 1))] \o <<>>
                   v == Blake2bRounds(
                            h \o <<Sha512H[1], Sha512H[2], Sha512H[3], Sha512H[4],
                                   Xor64(Sha512H[5], <<0, 0, t \div 65536, t % 65536>>), Sha512H[6],
                                   IF last THEN Not64(Sha512H[7]) ELSE Sha512H[7], Sha512H[8]>>,
                            m, 1, 12)
               IN [i \in 1..8 |-> Xor64(Xor64(h[i], v[i]), v[i + 8])] \o <<>>
      [] fn = "Blake2sCompress" ->
           LET h == args[1]
               block == args[2]
               t == args[3]
               last == args[4]
           IN  LET m == [i \in 1..16 |-> LeWord32(block, 4 * (i - 1))] \o <<>>
                   v == Blake2sRounds(
                            h \o <<Sha256H[1], Sha256H[2], Sha256H[3], Sha256H[4],
                                   Xor32(Sha256H[5], <<t \div 65536, t % 65536>>), Sha256H[6],
                                   IF last THEN Not32(Sha256H[7]) ELSE Sha256H[7], Sha256H[8]>>,
                            m, 1, 10)
               IN [i \in 1..8 |-> Xor32(Xor32(h[i], v[i]), v[i + 8])] \o <<>>
      [] fn = "Blake2bBlocks" ->
           LET h == args[1]
               msg == args[2]
               from == args[3]
               to == args[4]
           IN  IF from = to
               THEN Blake2bCompress(h, Blake2Block(msg, 128, from), Min(128 * from, Len(msg)),
                                    from = Blake2Count(msg, 128))
               ELSE CHOOSE r \in {Blake2bBlocks(half, msg, ((from + to) \div 2) + 1, to) :
                                  half \in {Blake2bBlocks(h, msg, from, (from + to) \div 2)}} : TRUE
      [] fn = "Blake2sBlocks" ->
           LET h == args[1]
               msg == args[2]
               from == args[3]
               to == args[4]
           IN  IF from = to
               THEN Blake2sCompress(h, Blake2Block(msg, 64, from), Min(64 * from, Len(msg)),
                                    from = Blake2Count(msg, 64))
               ELSE CHOOSE r \in {Blake2sBlocks(half, msg, ((from + to) \div 2) + 1, to) :
                                  half \in {Blake2sBlocks(h, msg, from, (from + to) \div 2)}} : TRUE
      [] fn = "Blake2bDigest" ->
           LET msg == args[1]
           IN  BytesLe(Blake2bBlocks(<<Xor64(Sha512H[1], <<0, 0, 257, 64>>)>> \o Tail(Sha512H),
                                     msg, 1, Blake2Count(msg, 128)), 4, 64)
      [] fn = "Blake2sDigest" ->
           LET msg == args[1]
           IN  BytesLe(Blake2sBlocks(<<Xor32(Sha256H[1], <<257, 32>>)>> \o Tail(Sha256H),
                                     msg, 1, Blake2Count(msg, 64)), 2, 32)
      [] fn = "Blot" -> ValueBlot(args[1], args[2])
      [] fn = "JsonBlot" -> JsonValueBlot(args[1], args[2])
      [] fn = "Result" ->
           LET a == args[1]
               absorbed == args[2]
           IN  CASE a = "Sha1" -> Sha1Digest(absorbed)
                 [] a = "Sha2256" -> Sha256Digest(absorbed)
                 [] a = "Sha2512" -> Sha512Digest(absorbed)
                 [] a = "Sha3512" -> Sha3Digest(absorbed, 64)
                 [] a = "Sha3384" -> Sha3Digest(absorbed, 48)
                 [] a = "Sha3256" -> Sha3Digest(absorbed, 32)
                 [] a = "Sha3224" -> Sha3Digest(absorbed, 28)
                 [] a = "Blake2b512" -> Blake2bDigest(absorbed)
                 [] a = "Blake2s256" -> Blake2sDigest(absorbed)

-----------------------------------------------------------------------------
(* blot-lib/src/core.rs *)

\* core::primitive / Multihash::digest_primitive
Primitive(a, tag, bytes) == Result(a, Input(Input(<<>>, <<tag>>), bytes))

RECURSIVE InputAll(_, _)
\* The for loop of core::collection: every byte string is absorbed in order.
InputAll(absorbed, list) ==
    IF list = <<>> THEN absorbed
    ELSE InputAll(Input(absorbed, Head(list)), Tail(list))

\* core::collection / Multihash::digest_collection
Collection(a, tag, list) == Result(a, InputAll(Input(<<>>, <<tag>>), list))

\* Ord for Vec<u8>, x < y: the first byte that differs decides, and a
\* proper prefix is smaller.
LexLess(x, y) ==
    \/ \E i \in 1..Min(Len(x), Len(y)) :
          x[i] < y[i] /\ \A j \in 1..(i - 1) : x[j] = y[j]
    \/ Len(x) < Len(y) /\ \A j \in 1..Len(x) : x[j] = y[j]

RECURSIVE InsertSorted(_, _)
InsertSorted(x, sorted) ==
    IF sorted = <<>> THEN <<x>>
    ELSE IF LexLess(Head(sorted), x)
         THEN <<Head(sorted)>> \o InsertSorted(x, Tail(sorted))
         ELSE <<x>> \o sorted

\* A sort that leaves the list in the order it found it.
SortUnstableNot(list) == list

RECURSIVE SortUnstable(_)
\* list.sort_unstable() on a Vec<Vec<u8>>: ascending byte-lexicographic order.
SortUnstable(list) ==
    IF list = <<>> THEN <<>>
    ELSE InsertSorted(Head(list), SortUnstable(Tail(list)))

RECURSIVE Dedup(_)
\* list.dedup(): consecutive equal elements are merged into the first.
Dedup(list) ==
    IF Len(list) < 2 THEN list
    ELSE IF list[1] = list[2] THEN Dedup(Tail(list))
         ELSE <<Head(list)>> \o Dedup(Tail(list))

\* A child that panicked aborts the hash it is part of.
AnyPanic(results) == \E i \in 1..Len(results) : results[i].kind = "Panic"

Digests(results) == [i \in 1..Len(results) |-> results[i].val]

\* impl Blot for Vec<T>, given the results of el.blot() in list order.
VecBlot(a, results) ==
    IF AnyPanic(results) THEN Panic
    ELSE Ok(Result(a, InputAll(Input(<<>>, <<TagList>>), Digests(results))))

\* A map hash that absorbs the entries in iteration order, unsorted.
MapBlotUnsorted(a, results) ==
    IF \E i \in 1..Len(results) :
          results[i].key.kind = "Panic" \/ results[i].value.kind = "Panic"
    THEN Panic
    ELSE LET list == [i \in 1..Len(results) |->
                         results[i].key.val \o results[i].value.val]
         IN Ok(Collection(a, TagDict, list))

\* impl Blot for HashMap<K, V> / BTreeMap<K, V> / serde_json Map, given for
\* each entry, in iteration order, the results of k.blot() and v.blot().
MapBlot(a, results) ==
    IF \E i \in 1..Len(results) :
          results[i].key.kind = "Panic" \/ results[i].value.kind = "Panic"
    THEN Panic
    ELSE LET list == [i \in 1..Len(results) |->
                         results[i].key.val \o results[i].value.val]
         IN Ok(Collection(a, TagDict, SortUnstable(list)))

-----------------------------------------------------------------------------
(* f64: [cls, neg, mant, exp].  A finite double is +/- mant * 2^exp with   *)
(* mant a natural (0 for the two zeros); halving, doubling and subtracting *)
(* one are exact on such values, as they are on the doubles of the loops.  *)

F64(neg, mant, exp) == [cls |-> "finite", neg |-> neg, mant |-> mant, exp |-> exp]
F64NaN == [cls |-> "nan", neg |-> FALSE, mant |-> 0, exp |-> 0]
F64Inf(neg) == [cls |-> "inf", neg |-> neg, mant |-> 0, exp |-> 0]

\* The mantissas of the model are below 2^31, so m * 2^x is below one for
\* every x <= -31.

\* m * 2^x > 1, for m >= 1.
GreaterThanOne(m, x) ==
    IF x >= 0 THEN ~(m = 1 /\ x = 0) ELSE IF x + 31 > 0 THEN m > 2 ^ (0 - x) ELSE FALSE

\* if f > 1. in the place of if f >= 1.
AboveOne(m, x) == GreaterThanOne(m, x)

\* m * 2^x >= 1, for m >= 1.
AtLeastOne(m, x) == IF x >= 0 THEN TRUE ELSE IF x + 31 > 0 THEN m >= 2 ^ (0 - x) ELSE FALSE

\* m * 2^x <= 1/2, for m >= 1.
AtMostHalf(m, x) ==
    IF x + 1 > 0 THEN FALSE ELSE IF x + 32 <= 0 THEN TRUE ELSE m <= 2 ^ (0 - (x + 1))

\* assert!(f < 1.): m * 2^x < 1, for m >= 0.
BelowOne(m, x) ==
    IF m = 0 THEN TRUE
    ELSE IF x >= 0 THEN FALSE
    ELSE IF x + 31 > 0 THEN m < 2 ^ (0 - x) ELSE TRUE

\* The local f of float_normalize, a positive double or zero: mant * 2^exp.
Local(mant, exp) == [mant |-> mant, exp |-> exp]

\* f = f / 2. on f > 1: exact.
Halved(f) == Local(f.mant, f.exp - 1)

\* f = f * 2. on f below two: exact.
Doubled(f) == Local(f.mant, f.exp + 1)

\* f = f - 1. that leaves f as it is.
MinusOneNot(f) == f

\* f = f - 1. on 1 <= f < 2: exact.
MinusOne(f) ==
    IF f.exp > 0 THEN Local(f.mant * (2 ^ f.exp) - 1, 0)
    ELSE Local(f.mant - 2 ^ (0 - f.exp), f.exp)

\* f == 0.0, true of both zeros, false of NaN and of the infinities.
IsZero(f) == f.cls = "finite" /\ f.mant = 0

\* A sign that is '+' for every double.
SignCharPlus(f) == 43

\* if f < 0. { s.push('-') } else { s.push('+') }
SignChar(f) == IF f.neg THEN 45 ELSE 43

\* A text for zero that keeps the sign of the zero.
ZeroTextSigned(f) == IF f.neg THEN <<45, 48, 58>> ELSE <<43, 48, 58>>

\* return "+0:".to_owned(), whatever the sign of the zero f.
ZeroText(f) == <<43, 48, 58>>

RECURSIVE ExponentUp(_, _, _)
\* while f > 1. { f = f / 2.; e = e + 1; }
ExponentUp(m, x, e) ==
    IF GreaterThanOne(m, x) THEN ExponentUp(m, x - 1, e + 1) ELSE <<x, e>>

RECURSIVE ExponentDown(_, _, _)
\* while f <= 0.5 { f = f * 2.; e = e - 1; }
ExponentDown(m, x, e) ==
    IF AtMostHalf(m, x) THEN ExponentDown(m, x + 1, e - 1) ELSE <<x, e>>

RECURSIVE MantissaLoop(_, _, _)
\* while f != 0. { push '1' and subtract one, or push '0'; the two assert!;
\* f = f * 2. }
MantissaLoop(m, x, s) ==
    IF m = 0 THEN Ok(s)
    ELSE LET one == AtLeastOne(m, x)
             s1 == Append(s, IF one THEN 49 ELSE 48)
             f1 == IF one THEN MinusOne(Local(m, x)) ELSE Local(m, x)
         IN IF ~BelowOne(f1.mant, f1.exp) THEN Panic   \* assert!(f < 1.)
            ELSE IF Len(s1) >= 1000 THEN Panic         \* assert!(s.len() < 1000)
            ELSE MantissaLoop(f1.mant, f1.exp + 1, s1)

\* A call that does not return: its loop goes on until e = e + 1 overflows,
\* a panic where overflow is checked, and for ever where it is not.
Endless == [kind |-> "Endless"]

\* core::float_normalize
FloatNormalize(f) ==
    IF IsZero(f) THEN Ok(ZeroText(f))
    \* NaN is neither above 1 nor at most 0.5: assert!(f <= 1.) fails.
    ELSE IF f.cls = "nan" THEN Panic
    \* An infinity halved is the infinity: while f > 1. does not end.
    ELSE IF f.cls = "inf" THEN Endless
    ELSE LET sign == <<SignChar(f)>>
             up == ExponentUp(f.mant, f.exp, 0)
             down == ExponentDown(f.mant, up[1], up[2])
             x == down[1]
             e == down[2]
             s == sign \o ToDecimalString(e) \o <<58>>
         IN IF GreaterThanOne(f.mant, x) \/ AtMostHalf(f.mant, x) THEN Panic
            ELSE MantissaLoop(f.mant, x, s)

\* impl Blot for f64
F64Blot(a, f) ==
    IF f.cls = "nan" THEN Ok(Primitive(a, TagFloat, <<78, 97, 78>>))
    ELSE IF f.cls = "inf"
         THEN Ok(Primitive(a, TagFloat,
                           IF f.neg THEN <<45, 73, 110, 102, 105, 110, 105, 116, 121>>
                           ELSE <<73, 110, 102, 105, 110, 105, 116, 121>>))
         ELSE LET text == FloatNormalize(f)
              IN IF text.kind = "Panic" THEN Panic
                 ELSE Ok(Primitive(a, TagFloat, text.val))

\* An integer hashed as the double of the same value.
IntegerBlotAsFloat(a, n) == F64Blot(a, F64(n < 0, IF n < 0 THEN 0 - n ELSE n, 0))

\* blot_integer!: the decimal text of the integer under the Integer tag.
IntegerBlot(a, n) == Ok(Primitive(a, TagInteger, ToDecimalString(n)))

-----------------------------------------------------------------------------
(* blot-lib/src/value/mod.rs *)

\* enum Value<T>
Null == [kind |-> "Null", val |-> <<>>]
Bool(b) == [kind |-> "Bool", val |-> b]
Integer(i) == [kind |-> "Integer", val |-> i]
Float(f) == [kind |-> "Float", val |-> f]
String(s) == [kind |-> "String", val |-> s]
Timestamp(s) == [kind |-> "Timestamp", val |-> s]
Redacted(seal) == [kind |-> "Redacted", val |-> seal]
Raw(bytes) == [kind |-> "Raw", val |-> bytes]
List(items) == [kind |-> "List", val |-> items]
Set(items) == [kind |-> "Set", val |-> items]
\* A HashMap<String, Value<T>>: its entries [key, value] in iteration order.
Dict(entries) == [kind |-> "Dict", val |-> entries]

RECURSIVE SequencesAsSets(_)
\* Value::sequences_as_sets: a List becomes the Set of its own elements, a
\* Dict has its values rewritten, any other value is returned as it is.
SequencesAsSets(v) ==
    CASE v.kind = "List" -> Set(v.val)
      [] v.kind = "Dict" ->
            Dict([i \in 1..Len(v.val) |->
                     [key |-> v.val[i].key, value |-> SequencesAsSets(v.val[i].value)]])
      [] OTHER -> v

\* A seal hashed as the raw bytes of its digest rather than standing for it.
SealBlotRehashed(a, seal) ==
    IF Len(seal.digest) # AlgLength(a) THEN Panic
    ELSE Ok(Primitive(a, TagRaw, seal.digest))

\* impl Blot for Seal<T>: GenericArray::from_slice panics on a slice that is
\* not of the hasher's output size.
SealBlot(a, seal) ==
    IF Len(seal.digest) # AlgLength(a) THEN Panic ELSE Ok(seal.digest)

\* A set hash that sorts but keeps the duplicates.
ValueSetBlotNoDedup(a, results) ==
    IF AnyPanic(results) THEN Panic
    ELSE Ok(Collection(a, TagSet, SortUnstable(Digests(results))))

\* The Value::Set arm of Value::blot, given the results of item.blot().
ValueSetBlot(a, results) ==
    IF AnyPanic(results) THEN Panic
    ELSE Ok(Collection(a, TagSet, Dedup(SortUnstable(Digests(results)))))

\* value.blot(&digester) of a Value<T>
Blot(a, v) == Op("Blot", <<a, v>>)

\* impl Blot for Value<T>
ValueBlot(a, v) ==
    CASE v.kind = "Null" -> Ok(Primitive(a, TagNull, <<>>))
      [] v.kind = "Bool" -> Ok(Primitive(a, TagBool, IF v.val THEN <<49>> ELSE <<48>>))
      [] v.kind = "Integer" -> IntegerBlot(a, v.val)
      [] v.kind = "Float" -> F64Blot(a, v.val)
      [] v.kind = "String" -> Ok(Primitive(a, TagUnicode, v.val))
      [] v.kind = "Timestamp" -> Ok(Primitive(a, TagTimestamp, v.val))
      [] v.kind = "Redacted" -> SealBlot(a, v.val)
      [] v.kind = "Raw" -> Ok(Primitive(a, TagRaw, v.val))
      [] v.kind = "List" -> VecBlot(a, [i \in 1..Len(v.val) |-> Blot(a, v.val[i])])
      [] v.kind = "Set" -> ValueSetBlot(a, [i \in 1..Len(v.val) |-> Blot(a, v.val[i])])
      [] v.kind = "Dict" ->
            MapBlot(a, [i \in 1..Len(v.val) |->
                           [key |-> Ok(Primitive(a, TagUnicode, v.val[i].key)),
                            value |-> Blot(a, v.val[i].value)]])

\* Hash::new
Hash(a, digest) == [tag |-> a, digest |-> digest]

\* Blot::digest: the Hash of the blot, unless the blot panicked.
ValueDigest(a, v) ==
    LET hash == Blot(a, v)
    IN IF hash.kind = "Panic" THEN Panic ELSE Ok(Hash(a, hash.val))

\* impl fmt::Display for Hash<T>: the code through LowerHex for Uvar, which
\* formats u64::from(uvar); the length; the digest through Display for Harvest.
HashDisplay(hash, overflowChecks) ==
    LET code == U64FromUvar(AlgCode(hash.tag), overflowChecks)
    IN IF code.kind = "Panic" THEN Panic
       ELSE Ok(LowerHex02(code.val) \o LowerHex02(U64(AlgLength(hash.tag)))
                  \o ToHex(hash.digest))

-----------------------------------------------------------------------------
(* blot-lib/src/json.rs: serde_json::Value *)

JNull == [kind |-> "JNull", val |-> <<>>]
JBool(b) == [kind |-> "JBool", val |-> b]
\* A Number is an f64, a u64 or a negative i64.
JFloat(f) == [kind |-> "JNumber", val |-> [is |-> "f64", float |-> f, int |-> 0]]
JInt(i) ==
    [kind |-> "JNumber",
     val |-> [is |-> IF i >= 0 THEN "u64" ELSE "i64", float |-> F64(FALSE, 0, 0), int |-> i]]
JString(s) == [kind |-> "JString", val |-> s]
JArray(items) == [kind |-> "JArray", val |-> items]
\* A Map<String, Value>: its entries [key, value] in iteration order.
JObject(entries) == [kind |-> "JObject", val |-> entries]

\* impl Blot for Number (not common_json)
NumberBlot(a, num) ==
    IF num.is = "f64" THEN F64Blot(a, num.float)
    ELSE Ok(Primitive(a, TagInteger, ToDecimalString(num.int)))

\* The Value::String arm of impl Blot for serde_json::Value.
JsonStringBlot(a, raw) ==
    IF StartsWith(raw, RedactedPrefix)
    THEN LET slice == FromHex(SliceFrom(raw, 12))
         IN IF slice.kind = "Err" THEN Panic   \* .expect("Hexadecimal")
            ELSE Ok(slice.val)
    ELSE Ok(Primitive(a, TagUnicode, raw))

\* value.blot(&digester) of a serde_json::Value
JsonBlot(a, v) == Op("JsonBlot", <<a, v>>)

\* impl Blot for serde_json::Value
JsonValueBlot(a, v) ==
    CASE v.kind = "JNull" -> Ok(Primitive(a, TagNull, <<>>))
      [] v.kind = "JBool" -> Ok(Primitive(a, TagBool, IF v.val THEN <<49>> ELSE <<48>>))
      [] v.kind = "JNumber" -> NumberBlot(a, v.val)
      [] v.kind = "JString" -> JsonStringBlot(a, v.val)
      [] v.kind = "JArray" -> VecBlot(a, [i \in 1..Len(v.val) |-> JsonBlot(a, v.val[i])])
      [] v.kind = "JObject" ->
            MapBlot(a, [i \in 1..Len(v.val) |->
                           [key |-> Ok(Primitive(a, TagUnicode, v.val[i].key)),
                            value |-> JsonBlot(a, v.val[i].value)]])

\* Blot::digest on a serde_json::Value.
JsonDigest(a, v) ==
    LET hash == JsonBlot(a, v)
    IN IF hash.kind = "Panic" THEN Panic ELSE Ok(Hash(a, hash.val))

-----------------------------------------------------------------------------
(* SpecUvar: a u64 is encoded with Uvar::from, the bytes are decoded with  *)
(* Uvar::take and the taken Uvar is turned back into a u64.                *)

\* The numbers 0..MaxSmallCode are all tried.
MaxSmallCode == 300

\* Numbers with zero bytes, with high bytes, and the largest below 2^63.
LargeNumbers ==
    {U64(CodeNumber(a)) : a \in Algorithms}
        \cup {U64(4736), U64(65536), U64(16777216), U64(2147483647),
              <<0, 0, 0, 0, 1, 0, 0, 0>>,
              <<8, 7, 6, 5, 4, 3, 2, 1>>,
              <<255, 255, 255, 255, 255, 255, 255, 127>>}

U64Inputs == {U64(k) : k \in 0..MaxSmallCode} \cup LargeNumbers

UvarInit ==
    /\ RestIdle
    /\ pc = "uvar"
    /\ un \in U64Inputs
    /\ uvar = Idle
    /\ utaken = Idle
    /\ udecoded = Idle
    /\ sealT = Idle /\ sealInput = Idle /\ sealBytes = Idle /\ sealRes = Idle
    /\ hashT = Idle /\ hashAlg = Idle /\ value = Idle /\ before = Idle
    /\ op = Idle /\ changed = Idle /\ after = Idle

\* let uvar: Uvar = n.into();
UvarEncode ==
    /\ pc = "uvar"
    /\ uvar' = [kind |-> "Uvar", bytes |-> UvarFrom(un)]
    /\ pc' = "encoded"
    /\ UNCHANGED <<un, utaken, udecoded, sealVars, hashVars, restVars>>

\* Uvar::take(&uvar.to_bytes())
UvarTakeEncoded ==
    /\ pc = "encoded"
    /\ utaken' = UvarTake(uvar.bytes)
    /\ pc' = "taken"
    /\ UNCHANGED <<un, uvar, udecoded, sealVars, hashVars, restVars>>

\* u64::from(taken)
UvarDecode ==
    /\ pc = "taken"
    /\ utaken.kind = "Ok"
    /\ \E overflowChecks \in BOOLEAN :
          udecoded' = U64FromUvar(utaken.val.uvar, overflowChecks)
    /\ pc' = "decoded"
    /\ UNCHANGED <<un, uvar, utaken, sealVars, hashVars, restVars>>

UvarNext == UvarEncode \/ UvarTakeEncoded \/ UvarDecode

SpecUvar == UvarInit /\ [][UvarNext]_vars

-----------------------------------------------------------------------------
(* SpecSeal: Seal<T> is parsed from its surface forms.  A scenario is      *)
(* either a hex body h, parsed as "**REDACTED**" + h, as "77" + h and as   *)
(* the bytes 0x77 ++ unhex(h), or a raw buffer handed as it is to          *)
(* Seal::from_bytes and, when it is ASCII, to Seal::from_str.              *)

\* Bodies of up to MaxBodyLen sample bytes are all tried.
MaxBodyLen == 2

ByteSample == {0, 32, 119, 128}

RECURSIVE SeqsUpTo(_, _)
\* The sequences of at most n elements of S.
SeqsUpTo(S, n) ==
    IF n = 0 THEN {<<>>}
    ELSE LET shorter == SeqsUpTo(S, n - 1)
         IN shorter \cup {Append(q, x) : q \in shorter, x \in S}

SmallSeqs == SeqsUpTo(ByteSample, MaxBodyLen)

\* An algorithm other than t.
OtherAlgorithm(t) == IF t = "Sha1" THEN "Sha2256" ELSE "Sha1"

\* uvar code, declared length and digest, each right or wrong.
StructuredBodies(t) ==
    {code \o <<length>> \o Fill(count, 171) :
        code \in {AlgCode(t), AlgCode(OtherAlgorithm(t))},
        length \in {AlgLength(t), AlgLength(t) + 1},
        count \in {AlgLength(t) - 1, AlgLength(t), AlgLength(t) + 256}}

\* Uvars that never end, or end at the tenth byte.
LongUvarBodies ==
    {Fill(n, 128) \o tail : n \in {9, 10}, tail \in {<<>>, <<1>>}}

SealBodies(t) ==
    SmallSeqs \cup {AlgCode(t) \o q : q \in SmallSeqs}
        \cup StructuredBodies(t) \cup LongUvarBodies

\* The text with its hex letters in upper case.
UpperHex(text) ==
    [i \in 1..Len(text) |-> IF text[i] >= 97 /\ text[i] <= 102 THEN text[i] - 32 ELSE text[i]]

HexBodies(t) ==
    {ToHex(b) : b \in SealBodies(t)} \cup {UpperHex(ToHex(b)) : b \in StructuredBodies(t)}

\* Texts that are not a prefix followed by hex.
OddTexts ==
    {Str(<<"7">>), Str(<<"7", "7">>), Str(<<"7", "7", "1">>), Str(<<"7", "7", "z", "z">>),
     Str(<<"1", "2", "2", "0">>), RedactedPrefix, RedactedPrefix \o Str(<<"g", "0">>),
     RedactedPrefix \o Str(<<"1", "2", "2">>), SliceTo(RedactedPrefix, 11)}

RawInputs(t) ==
    SmallSeqs \cup OddTexts
        \cup {<<SEAL_MARK>> \o AlgCode(t) \o <<AlgLength(t)>> \o Fill(AlgLength(t), 171)}

IsAscii(bytes) == \A i \in 1..Len(bytes) : bytes[i] < 128

NoResults == [classic |-> Idle, marked |-> Idle, binary |-> Idle, raw |-> Idle, rawStr |-> Idle]

SealInit ==
    /\ RestIdle
    /\ sealT \in Algorithms
    /\ \/ pc = "seal-forms" /\ sealInput \in HexBodies(sealT) /\ sealBytes = Idle
       \/ pc = "seal-raw" /\ sealInput = Idle /\ sealBytes \in RawInputs(sealT)
    /\ sealRes = NoResults
    /\ un = Idle /\ uvar = Idle /\ utaken = Idle /\ udecoded = Idle
    /\ hashT = Idle /\ hashAlg = Idle /\ value = Idle /\ before = Idle
    /\ op = Idle /\ changed = Idle /\ after = Idle

\* Seal::<T>::from_str("**REDACTED**" + h)
ParseClassic ==
    /\ pc = "seal-forms"
    /\ sealRes.classic = Idle
    /\ sealRes' = [sealRes EXCEPT !.classic = SealFromStr(sealT, RedactedPrefix \o sealInput)]
    /\ UNCHANGED <<pc, sealT, sealInput, sealBytes, uvarVars, hashVars, restVars>>

\* Seal::<T>::from_str("77" + h)
ParseMarked ==
    /\ pc = "seal-forms"
    /\ sealRes.marked = Idle
    /\ sealRes' = [sealRes EXCEPT !.marked = SealFromStr(sealT, MarkPrefix \o sealInput)]
    /\ UNCHANGED <<pc, sealT, sealInput, sealBytes, uvarVars, hashVars, restVars>>

\* Seal::<T>::from_bytes([0x77] ++ unhex(h))
ParseBinary ==
    /\ pc = "seal-forms"
    /\ sealRes.binary = Idle
    /\ sealRes' = [sealRes EXCEPT
                      !.binary = SealFromBytes(sealT, <<SEAL_MARK>> \o FromHex(sealInput).val)]
    /\ UNCHANGED <<pc, sealT, sealInput, sealBytes, uvarVars, hashVars, restVars>>

\* Seal::<T>::from_bytes(buffer)
ParseRawBytes ==
    /\ pc = "seal-raw"
    /\ sealRes.raw = Idle
    /\ sealRes' = [sealRes EXCEPT !.raw = SealFromBytes(sealT, sealBytes)]
    /\ UNCHANGED <<pc, sealT, sealInput, sealBytes, uvarVars, hashVars, restVars>>

\* Seal::<T>::from_str(text)
ParseRawStr ==
    /\ pc = "seal-raw"
    /\ IsAscii(sealBytes)
    /\ sealRes.rawStr = Idle
    /\ sealRes' = [sealRes EXCEPT !.rawStr = SealFromStr(sealT, sealBytes)]
    /\ UNCHANGED <<pc, sealT, sealInput, sealBytes, uvarVars, hashVars, restVars>>

SealNext == ParseClassic \/ ParseMarked \/ ParseBinary \/ ParseRawBytes \/ ParseRawStr

SpecSeal == SealInit /\ [][SealNext]_vars

-----------------------------------------------------------------------------
(* Properties of Seal parsing, checked under SpecSeal *)

SealForms == {"classic", "marked", "binary"}

SealResults == {"classic", "marked", "binary", "raw", "rawStr"}

InSeal == pc \in {"seal-forms", "seal-raw"}

\* C5: every Seal<T> returned as Ok by Seal::from_str or Seal::from_bytes
\* holds a digest of exactly T's length, whatever the length of the input.
C5_SealDigestLength ==
    InSeal =>
        \A f \in SealResults :
            sealRes[f].kind = "Ok" => Len(sealRes[f].val.digest) = AlgLength(sealT)

\* C6: Seal::from_bytes and Seal::from_str return Ok or Err for every input,
\* the empty one included, and a buffer without the 0x77 mark is NotRedacted.
C6_SealNeverAborts ==
    pc = "seal-raw" =>
        /\ sealRes.raw.kind \in {"idle", "Ok", "Err"}
        /\ sealRes.rawStr.kind \in {"idle", "Ok", "Err"}
        /\ sealRes.raw.kind # "idle" /\ (sealBytes = <<>> \/ sealBytes[1] # SEAL_MARK)
              => sealRes.raw = SealErr([error |-> "NotRedacted"])

\* C7: for a hex body h the parses of "**REDACTED**" + h, of "77" + h and of
\* 0x77 ++ unhex(h) give the same result: equal seals, or failure for all.
C7_SealFormsAgree ==
    pc = "seal-forms" /\ (\A f \in SealForms : sealRes[f].kind # "idle") =>
        /\ \A f, g \in SealForms : sealRes[f].kind = sealRes[g].kind
        /\ sealRes.classic.kind = "Ok" =>
              /\ sealRes.classic.val = sealRes.marked.val
              /\ sealRes.marked.val = sealRes.binary.val

\* The three forms of a well-formed body were parsed and gave seals.
C7_Witness ==
    /\ pc = "seal-forms"
    /\ \A f \in SealForms : sealRes[f].kind = "Ok"
    /\ sealRes.classic.val.digest = Fill(AlgLength(sealT), 171)

\* The outcome the parsing steps allow for body, taken in their order.
ErrorInOrder(t, body, r) ==
    LET taken == UvarTake(body) IN
    IF taken.kind = "Err"
    THEN r = SealErr([error |-> "UvarParseError", cause |-> taken.err])
    ELSE IF taken.val.uvar # AlgCode(t)
    THEN r.kind = "Err" /\ r.err.error = "InvalidStamp"
    ELSE IF Len(taken.val.rest) < 2
    THEN r = SealErr([error |-> "DigestTooShort"])
    ELSE IF taken.val.rest[1] # AlgLength(t)
    THEN r = SealErr([error |-> "UnexpectedLength", expected |-> AlgLength(t),
                      actual |-> taken.val.rest[1]])
    ELSE IF Len(taken.val.rest) - 1 # AlgLength(t)
    THEN r.kind = "Err" /\ r.err.error = "UnexpectedLength"
    ELSE r.kind = "Ok"

\* C8: the error of a parse follows the order of the steps: a malformed uvar
\* is UvarParseError; else a foreign code is InvalidStamp whatever follows;
\* else fewer than two bytes after the uvar is DigestTooShort; only then is
\* the declared length, and after it the number of bytes of the digest, held
\* against T's length, and a difference reported as UnexpectedLength.
C8_SealErrorOrder ==
    pc = "seal-forms" =>
        \A f \in SealForms :
            sealRes[f].kind # "idle" =>
                ErrorInOrder(sealT, FromHex(sealInput).val, sealRes[f])

-----------------------------------------------------------------------------
(* SpecHash: a Value<T> is hashed with an algorithm, then rewritten (a      *)
(* subtree redacted, the elements of a set rearranged, the entries of a     *)
(* dict reordered) and hashed again.                                        *)

\* Lists, sets and dicts of up to MaxLen elements are tried.
MaxLen == 2

\* A rearranged set repeats up to MaxRepeats elements.
MaxRepeats == 1

\* The seal of a digest of T's length, as Seal::<T>::from_bytes gives it.
SealOf(t, digest) ==
    SealFromBytes(t, <<SEAL_MARK>> \o AlgCode(t) \o <<AlgLength(t)>> \o digest)

\* The values without children.
Leaves(t) ==
    {Null, Bool(TRUE), Integer(12), String(Str(<<"a">>)), Float(F64(FALSE, 3, -1)),
     Raw(<<0, 255>>), Timestamp(Str(<<"2", "0", "1", "8", "Z">>)),
     Redacted(SealOf(t, Fill(AlgLength(t), 171)).val)}

\* The elements the collections are built of: leaves and collections.
Elements(t) ==
    {Null, String(Str(<<"a">>)),
     Redacted(SealOf(t, Fill(AlgLength(t), 171)).val),
     Set(<<Integer(12), Null>>),
     Dict(<<[key |-> Str(<<"b">>), value |-> Null],
            [key |-> Str(<<"a">>), value |-> List(<<Bool(FALSE)>>)]>>)}

Keys == {Str(<<"a">>), Str(<<"a", "b">>)}

\* The entries of a HashMap, in an iteration order: no key twice.
EntryLists(t) ==
    {q \in SeqsUpTo([key : Keys, value : Elements(t)], MaxLen) :
        \A i, j \in 1..Len(q) : i # j => q[i].key # q[j].key}

Values(t) ==
    Leaves(t)
        \cup {List(q) : q \in SeqsUpTo(Elements(t), MaxLen)}
        \cup {Set(q) : q \in SeqsUpTo(Elements(t), MaxLen)}
        \cup {Dict(q) : q \in EntryLists(t)}

\* The type parameter of the value and the algorithm it is hashed with.
HashPairs ==
    {<<t, t>> : t \in Algorithms}
        \cup {<<"Sha2256", "Sha3256">>, <<"Sha3256", "Blake2s256">>, <<"Sha2256", "Sha1">>}

\* The pairs under which collections are hashed as well as leaves.
CollectionPairs ==
    {<<"Sha1", "Sha1">>, <<"Sha2256", "Sha2256">>, <<"Blake2s256", "Blake2s256">>,
     <<"Sha3256", "Blake2s256">>, <<"Sha2256", "Sha1">>}

\* The elements of the hashed lists and sets, in the order they are taken.
HashElements(t) ==
    <<Set(<<Integer(12), Null>>), Redacted(SealOf(t, Fill(AlgLength(t), 171)).val),
      String(Str(<<"a">>))>>

\* The entries of the hashed dicts, in the order they are taken.
HashEntries ==
    <<[key |-> Str(<<"b">>), value |-> Null],
      [key |-> Str(<<"a">>), value |-> List(<<Bool(FALSE)>>)],
      [key |-> Str(<<"a", "b">>), value |-> Bool(TRUE)]>>

\* The first elements of q, up to n of them.
Prefixes(q, n) == {SubSeq(q, 1, k) : k \in 0..Min(n, Len(q))}

\* The values hashed under a pair: the leaves, and under the pairs above the
\* lists, sets and dicts of up to MaxLen elements.
HashValues(pair) ==
    Leaves(pair[1]) \cup {Float(F64NaN), Float(F64Inf(TRUE))} \cup
        IF pair \in CollectionPairs
        THEN {List(q) : q \in Prefixes(HashElements(pair[1]), MaxLen)}
                 \cup {Set(q) : q \in Prefixes(HashElements(pair[1]), MaxLen)}
                 \cup {Dict(q) : q \in Prefixes(HashEntries, MaxLen)}
        ELSE {}

IsCollection(v) == v.kind \in {"List", "Set", "Dict"}

\* The i-th child of a collection.
Child(v, i) == IF v.kind = "Dict" THEN v.val[i].value ELSE v.val[i]

RECURSIVE Paths(_)
\* The positions of the subtrees of v: the root, list and set elements,
\* dict values.
Paths(v) ==
    {<<>>} \cup
        IF IsCollection(v)
        THEN UNION {{<<i>> \o p : p \in Paths(Child(v, i))} : i \in 1..Len(v.val)}
        ELSE {}

RECURSIVE At(_, _)
\* The subtree of v at a path.
At(v, path) == IF path = <<>> THEN v ELSE At(Child(v, path[1]), Tail(path))

RECURSIVE ReplaceAt(_, _, _)
\* v with the subtree at a path replaced.
ReplaceAt(v, path, new) ==
    IF path = <<>> THEN new
    ELSE LET i == path[1]
             child == ReplaceAt(Child(v, i), Tail(path), new)
         IN IF v.kind = "Dict"
            THEN [v EXCEPT !.val[i].value = child]
            ELSE [v EXCEPT !.val[i] = child]

Range(q) == {q[i] : i \in 1..Len(q)}

\* The number of times x is in q.
Count(x, q) == Cardinality({i \in 1..Len(q) : q[i] = x})

\* The orders in which the elements of q can be put.
Orders(q) ==
    {r \in SeqsUpTo(Range(q), Len(q)) :
        Len(r) = Len(q) /\ \A x \in Range(q) : Count(x, r) = Count(x, q)}

\* The elements of q in any order, one of them repeated up to MaxRepeats
\* times more.
Rearrangements(q) ==
    {r \o Fill(n, x) : r \in Orders(q), x \in Range(q), n \in 0..MaxRepeats}

HashInit ==
    /\ RestIdle
    /\ pc = "hash"
    /\ \E pair \in HashPairs :
          hashT = pair[1] /\ hashAlg = pair[2] /\ value \in HashValues(pair)
    /\ before = Idle /\ op = Idle /\ changed = Idle /\ after = Idle
    /\ un = Idle /\ uvar = Idle /\ utaken = Idle /\ udecoded = Idle
    /\ sealT = Idle /\ sealInput = Idle /\ sealBytes = Idle /\ sealRes = Idle

\* value.digest(hashAlg)
Digest ==
    /\ pc = "hash"
    /\ pc' = "hashed"
    /\ before' = ValueDigest(hashAlg, value)
    /\ UNCHANGED <<hashT, hashAlg, value, op, changed, after, uvarVars, sealVars, restVars>>

\* A subtree is replaced by the seal of its own digest, and the value hashed.
Redact ==
    /\ pc = "hashed"
    /\ \E path \in Paths(value) :
          LET digest == ValueDigest(hashAlg, At(value, path)) IN
          /\ digest.kind = "Ok"
          /\ LET seal == SealOf(hashT, digest.val.digest) IN
             /\ seal.kind = "Ok"
             /\ changed' = ReplaceAt(value, path, Redacted(seal.val))
             /\ op' = [kind |-> "redact", path |-> path, seal |-> seal.val]
    /\ after' = ValueDigest(hashAlg, changed')
    /\ pc' = "done"
    /\ UNCHANGED <<hashT, hashAlg, value, before, uvarVars, sealVars, restVars>>

\* The elements of a set are permuted and repeated, and the value hashed.
Rearrange ==
    /\ pc = "hashed"
    /\ \E path \in Paths(value) :
          /\ At(value, path).kind = "Set"
          /\ \E r \in Rearrangements(At(value, path).val) :
                /\ changed' = ReplaceAt(value, path, Set(r))
                /\ op' = [kind |-> "rearrange", path |-> path, to |-> r]
    /\ after' = ValueDigest(hashAlg, changed')
    /\ pc' = "done"
    /\ UNCHANGED <<hashT, hashAlg, value, before, uvarVars, sealVars, restVars>>

\* The entries of a dict are met in another order, and the value hashed.
Reorder ==
    /\ pc = "hashed"
    /\ \E path \in Paths(value) :
          /\ At(value, path).kind = "Dict"
          /\ \E r \in Orders(At(value, path).val) :
                /\ changed' = ReplaceAt(value, path, Dict(r))
                /\ op' = [kind |-> "reorder", path |-> path, to |-> r]
    /\ after' = ValueDigest(hashAlg, changed')
    /\ pc' = "done"
    /\ UNCHANGED <<hashT, hashAlg, value, before, uvarVars, sealVars, restVars>>

HashNext == Digest \/ Redact \/ Rearrange \/ Reorder

SpecHash == HashInit /\ [][HashNext]_vars

-----------------------------------------------------------------------------
(* Properties of Value hashing, checked under SpecHash *)

\* C1: replacing a subtree (the root, a list element, a set element or a
\* dict value) by the seal of its own hash leaves the hash of the value
\* unchanged, and a redacted root hashes to the digest of its seal, verbatim.
C1_RedactionEquivalence ==
    pc = "done" /\ op.kind = "redact" =>
        /\ after = before
        /\ op.path = <<>> => after = Ok(Hash(hashAlg, op.seal.digest))

\* A subtree two levels down was redacted in a value that hashes.
C1_Witness ==
    /\ pc = "done"
    /\ op.kind = "redact"
    /\ Len(op.path) = 2
    /\ before.kind = "Ok"
    /\ changed # value

\* C2: a set whose elements are put in another order, any of them repeated,
\* has the hash it had.
C2_SetOrderAndDuplicates ==
    pc = "done" /\ op.kind = "rearrange" => after = before

\* A set of two different elements was turned round and its tail repeated.
C2_Witness ==
    /\ pc = "done"
    /\ op.kind = "rearrange"
    /\ before.kind = "Ok"
    /\ Len(At(value, op.path).val) = 2
    /\ Len(op.to) = 3
    /\ op.to[1] = At(value, op.path).val[2]
    /\ op.to[1] # op.to[2]

\* C3: a dict whose entries are met in another order has the hash it had.
C3_KeyOrder ==
    pc = "done" /\ op.kind = "reorder" => after = before

\* A dict of two entries was hashed with its entries in the other order.
C3_Witness ==
    /\ pc = "done"
    /\ op.kind = "reorder"
    /\ before.kind = "Ok"
    /\ Len(op.to) = 2
    /\ op.to # At(value, op.path).val

-----------------------------------------------------------------------------
(* SpecJson: a serde_json::Value is hashed through the JSON bridge.        *)

JsonLeaves ==
    {JNull, JBool(TRUE), JInt(12), JInt(-3), JFloat(F64(FALSE, 3, -1)),
     JString(Str(<<"a">>)),
     JString(RedactedPrefix),
     JString(RedactedPrefix \o Str(<<"a", "b">>)),
     JString(RedactedPrefix \o Str(<<"z", "z">>)),
     JString(RedactedPrefix \o ToHex(Fill(32, 171)))}

\* The elements of the hashed arrays, in the order they are taken.
JsonElements ==
    <<JInt(12), JString(RedactedPrefix \o ToHex(Fill(32, 171))), JString(Str(<<"a">>))>>

\* The entries of the hashed objects, in the order they are taken.
JsonEntries ==
    <<[key |-> Str(<<"b">>), value |-> JNull],
      [key |-> Str(<<"a">>), value |-> JString(RedactedPrefix \o Str(<<"z", "z">>))],
      [key |-> Str(<<"a", "b">>), value |-> JBool(TRUE)]>>

\* The leaves, and the arrays and objects of up to MaxLen elements.
JsonValues ==
    JsonLeaves
        \cup {JArray(q) : q \in Prefixes(JsonElements, MaxLen)}
        \cup {JObject(q) : q \in Prefixes(JsonEntries, MaxLen)}

JsonInit ==
    /\ RestIdle
    /\ pc = "json"
    /\ hashAlg \in Algorithms
    /\ value \in JsonValues
    /\ hashT = Idle /\ before = Idle /\ op = Idle /\ changed = Idle /\ after = Idle
    /\ un = Idle /\ uvar = Idle /\ utaken = Idle /\ udecoded = Idle
    /\ sealT = Idle /\ sealInput = Idle /\ sealBytes = Idle /\ sealRes = Idle

\* value.digest(hashAlg) on a serde_json::Value
JsonHash ==
    /\ pc = "json"
    /\ pc' = "json-hashed"
    /\ before' = JsonDigest(hashAlg, value)
    /\ UNCHANGED <<hashT, hashAlg, value, op, changed, after, uvarVars, sealVars, restVars>>

JsonNext == JsonHash

SpecJson == JsonInit /\ [][JsonNext]_vars

\* C4: the digest of the Hash returned by digest(A), for a Value and for a
\* serde_json value alike, has exactly A.length() bytes.
C4_DigestLength ==
    pc \in {"hashed", "json-hashed"} /\ before.kind = "Ok" =>
        Len(before.val.digest) = AlgLength(hashAlg)

-----------------------------------------------------------------------------
(* Properties of the uvar codec, checked under SpecUvar *)

\* C9: for n below 2^63, the bytes of Uvar::from(n) are taken whole by
\* Uvar::take, with an empty rest, and u64::from gives n back.
C9_UvarRoundTrip ==
    pc \in {"taken", "decoded"} /\ un[8] < 128 =>
        /\ utaken.kind = "Ok"
        /\ utaken.val.rest = <<>>
        /\ pc = "decoded" => udecoded = Ok(un)

\* Bit i (from 0, the lowest) of a u64.
BitOf(v, i) == IF i > 63 THEN 0 ELSE (v[(i \div 8) + 1] \div (2 ^ (i % 8))) % 2

\* The g-th group of seven bits of a u64, from the lowest.
Group7(v, g) ==
    BitOf(v, 7 * g) + 2 * BitOf(v, 7 * g + 1) + 4 * BitOf(v, 7 * g + 2)
        + 8 * BitOf(v, 7 * g + 3) + 16 * BitOf(v, 7 * g + 4)
        + 32 * BitOf(v, 7 * g + 5) + 64 * BitOf(v, 7 * g + 6)

\* The unsigned varint of a u64: its groups of seven bits, lowest first, up
\* to the last that is not zero, each but the last with the high bit set.
Varint(v) ==
    LET used == {g \in 0..9 : Group7(v, g) # 0}
        last == IF used = {} THEN 0 ELSE CHOOSE g \in used : \A h \in used : h <= g
    IN [i \in 1..(last + 1) |-> Group7(v, i - 1) + (IF i - 1 < last THEN 128 ELSE 0)]

\* C10: Uvar::from(n) is the unsigned varint of n: little-endian base 128,
\* high bit set on every byte but the last; 0 is the byte 0x00 and 0xb240
\* starts with 0xc0 0xe4.
C10_UvarIsVarint ==
    pc \in {"encoded", "taken", "decoded"} => uvar.bytes = Varint(un)

-----------------------------------------------------------------------------
(* SpecBuffer: a byte buffer is handed to Uvar::take and to                 *)
(* Uvar::from_bytes.                                                        *)

\* A buffer starts with up to MaxHighBytes bytes that have the high bit set.
MaxHighBytes == 11

\* It ends with up to MaxTailLen bytes of the sample.
MaxTailLen == 2

BufferBytes == {0, 18, 127, 128, 255}

Buffers ==
    {Fill(n, 128) \o t : n \in 0..MaxHighBytes, t \in SeqsUpTo(BufferBytes, MaxTailLen)}

BufferInit ==
    /\ pc = "buffer"
    /\ ubuffer \in Buffers
    /\ ufrom = Idle
    /\ UvarIdle /\ SealIdle /\ HashIdle
    /\ hashText = Idle /\ DeIdle /\ RegIdle /\ StepIdle

\* Uvar::take(&buffer)
TakeBuffer ==
    /\ pc = "buffer"
    /\ utaken = Idle
    /\ utaken' = UvarTake(ubuffer)
    /\ UNCHANGED <<pc, un, uvar, udecoded, sealVars, hashVars, hashText, bufVars,
                   deVars, regVars, stepVars>>

\* Uvar::from_bytes(&buffer)
FromBytesBuffer ==
    /\ pc = "buffer"
    /\ ufrom = Idle
    /\ ufrom' = UvarFromBytes(ubuffer)
    /\ UNCHANGED <<pc, uvarVars, sealVars, hashVars, hashText, ubuffer, deVars, regVars, stepVars>>

BufferNext == TakeBuffer \/ FromBytesBuffer

SpecBuffer == BufferInit /\ [][BufferNext]_vars

\* The index of the first byte of b with high bit 0, or 0 when there is none.
FirstTerminator(b) ==
    IF \A i \in 1..Len(b) : b[i] >= 128 THEN 0
    ELSE CHOOSE i \in 1..Len(b) : b[i] < 128 /\ \A j \in 1..(i - 1) : b[j] >= 128

\* C11: Uvar::take returns Ok((u, rest)) exactly when a byte with high bit 0
\* is among the first 9 bytes, u being the buffer up to the first such byte
\* (9 bytes at most) and rest what follows; with no such byte it fails, with
\* Overflow when more than 9 bytes were to be consumed and Underflow otherwise.
C11_UvarTakeOutcome ==
    pc = "buffer" /\ utaken.kind # "idle" =>
        LET k == FirstTerminator(ubuffer) IN
        IF k >= 1 /\ k <= 9
        THEN /\ utaken.kind = "Ok"
             /\ utaken.val.uvar = SliceTo(ubuffer, k)
             /\ utaken.val.uvar \o utaken.val.rest = ubuffer
        ELSE /\ utaken.kind = "Err"
             /\ utaken.err = IF Len(ubuffer) > 9 THEN "Overflow" ELSE "Underflow"

\* C12: where Uvar::from_bytes succeeds, the Uvar it returns holds the bytes
\* of the buffer, all of them.
C12_FromBytesIdentity ==
    pc = "buffer" /\ ufrom.kind = "Ok" => UvarToBytes(ufrom.val) = ubuffer

-----------------------------------------------------------------------------
(* SpecDisplay: a Hash is formatted with Display.                           *)

\* Digests of up to MaxDigestLen sample bytes are tried beside those of the
\* algorithm's length.
MaxDigestLen == 2

DisplayDigests(a) ==
    SeqsUpTo({0, 10, 255}, MaxDigestLen)
        \cup {Fill(AlgLength(a), 0), Fill(AlgLength(a), 171),
              Primitive(a, TagNull, <<>>), Primitive(a, TagUnicode, Str(<<"a">>))}

DisplayInit ==
    /\ pc = "display"
    /\ hashAlg \in Algorithms
    /\ \E d \in DisplayDigests(hashAlg) : before = Ok(Hash(hashAlg, d))
    /\ hashText = Idle
    /\ hashT = Idle /\ value = Idle /\ op = Idle /\ changed = Idle /\ after = Idle
    /\ UvarIdle /\ SealIdle /\ BufIdle /\ DeIdle /\ RegIdle /\ StepIdle

\* format!("{}", hash)
Display ==
    /\ pc = "display"
    /\ pc' = "displayed"
    /\ \E overflowChecks \in BOOLEAN :
          hashText' = HashDisplay(before.val, overflowChecks)
    /\ UNCHANGED <<uvarVars, sealVars, hashVars, bufVars, deVars, regVars, stepVars>>

DisplayNext == Display

SpecDisplay == DisplayInit /\ [][DisplayNext]_vars

\* C13: the Display text of a Hash of a registered algorithm A with digest d
\* is the lowercase hex of the bytes of A's uvar code, then of A's length in
\* two digits, then of d, with nothing between them.
C13_HashCanonicalText ==
    pc = "displayed" =>
        hashText = Ok(ToHex(AlgCode(hashAlg)) \o ToHex(<<AlgLength(hashAlg)>>)
                         \o ToHex(before.val.digest))

\* A hash of an algorithm with a two-byte code was formatted.
C13_Witness ==
    /\ pc = "displayed"
    /\ Len(AlgCode(hashAlg)) = 2
    /\ hashText.kind = "Ok"
    /\ Len(hashText.val) = 6 + 2 * AlgLength(hashAlg)

-----------------------------------------------------------------------------
(* blot-lib/src/value/de.rs: Value<T> and ValueSet<T> read from a JSON text *)

\* An integer literal of a JSON text, of any size: its sign and its magnitude
\* in nine bytes, lowest first.
JLiteral(neg, mag) == [kind |-> "JInteger", val |-> [neg |-> neg, mag |-> mag]]

\* The literal of a small number.
JLit(i) == JLiteral(i < 0, LeBytes(IF i < 0 THEN -i ELSE i, 9))

\* An i64 of the given sign and magnitude: a number where it is small, the
\* sign and the eight bytes of the magnitude where it is not.
I64(neg, mag) ==
    IF mag[4] < 128 /\ \A i \in 5..Len(mag) : mag[i] = 0
    THEN LET n == mag[1] + 256 * mag[2] + 65536 * mag[3] + 16777216 * mag[4]
         IN IF neg THEN -n ELSE n
    ELSE [neg |-> neg, mag |-> SliceTo(mag, 8)]

\* Bit k of a magnitude.
MagBit(mag, k) == (mag[(k \div 8) + 1] \div (2 ^ (k % 8))) % 2

\* The bits of a magnitude that are set.
BitsOf(mag) == {k \in 0..(8 * Len(mag) - 1) : MagBit(mag, k) = 1}

\* Rounding to an f64 (nearest, ties to even) of the non-zero integer whose
\* set bits are given: the 53 highest bits are kept and rounded on the 54th
\* and the bits below it. The result is the set bits of the f64.
RoundedBits(bits) ==
    LET top == CHOOSE k \in bits : \A j \in bits : j <= k
        low == IF top > 52 THEN top - 52 ELSE 0
        kept == {k \in bits : k >= low}
        up == /\ low > 0
              /\ (low - 1) \in bits
              /\ (low \in bits \/ \E j \in bits : j < low - 1)
        zeros == {k \in low..top : k \notin kept}
    IN IF ~up THEN kept
       ELSE IF zeros = {} THEN {top + 1}
       ELSE LET z == CHOOSE k \in zeros : \A j \in zeros : k <= j
            IN {k \in kept : k > z} \cup {z}

BitVal(bits, k, v) == IF k \in bits THEN v ELSE 0

\* The n bytes, lowest first, of the integer whose set bits are given.
BytesOfBits(bits, n) ==
    [i \in 1..n |->
        LET k == 8 * (i - 1)
        IN BitVal(bits, k, 1) + BitVal(bits, k + 1, 2) + BitVal(bits, k + 2, 4)
            + BitVal(bits, k + 3, 8) + BitVal(bits, k + 4, 16)
            + BitVal(bits, k + 5, 32) + BitVal(bits, k + 6, 64)
            + BitVal(bits, k + 7, 128)]

\* The f64 of the given sign whose set bits are given: an odd mantissa and
\* the exponent of its lowest bit. The mantissa is a number where it is
\* below 2^31, its seven bytes (lowest first) where it is not.
F64OfBits(neg, bits) ==
    IF bits = {} THEN F64(neg, 0, 0)
    ELSE LET exp == CHOOSE k \in bits : \A j \in bits : k <= j
             top == CHOOSE k \in bits : \A j \in bits : j <= k
             m == BytesOfBits({k - exp : k \in bits}, 7)
         IN IF top - exp < 31
            THEN F64(neg, m[1] + 256 * m[2] + 65536 * m[3] + 16777216 * m[4], exp)
            ELSE F64(neg, m, exp)

\* `significand as f64`, with the sign parse_number gives it: the f64
\* nearest to a u64 (ties to even).
F64FromInteger(neg, mag) ==
    IF BitsOf(mag) = {} THEN F64(neg, 0, 0)
    ELSE F64OfBits(neg, RoundedBits(BitsOf(mag)))

RECURSIVE MulAdd(_, _, _)
\* bytes * c + carry, lowest byte first, as long as the product needs.
MulAdd(bytes, c, carry) ==
    IF bytes = <<>>
    THEN IF carry = 0 THEN <<>>
         ELSE <<carry % 256>> \o MulAdd(<<>>, c, carry \div 256)
    ELSE LET v == Head(bytes) * c + carry
         IN <<v % 256>> \o MulAdd(Tail(bytes), c, v \div 256)

\* The first n bytes of a number, filled with zeros.
Widen(bytes, n) == SliceTo(bytes \o Fill(n, 0), n)

\* overflow!(significand * 10 + digit, u64::MAX)
Overflow(significand, digit) ==
    \E i \in 9..Len(MulAdd(significand, 10, digit)) :
        MulAdd(significand, 10, digit)[i] # 0

RECURSIVE DivMod10(_, _)
\* A number (lowest byte first) under the remainder of the bytes above it,
\* divided by ten: the quotient and the remainder.
DivMod10(bytes, rem) ==
    IF bytes = <<>> THEN [q |-> <<>>, r |-> rem]
    ELSE LET cur == rem * 256 + bytes[Len(bytes)]
             lower == DivMod10(SliceTo(bytes, Len(bytes) - 1), cur % 10)
         IN [q |-> Append(lower.q, cur \div 10), r |-> lower.r]

RECURSIVE LiteralDigits(_)
\* The decimal digits a literal is written with, highest first, after the
\* sign ("0" is the one digit 0).
LiteralDigits(mag) ==
    LET d == DivMod10(mag, 0)
    IN IF \A i \in 1..Len(mag) : d.q[i] = 0 THEN <<d.r>>
       ELSE Append(LiteralDigits(d.q), d.r)

RECURSIVE ParseInteger(_, _)
\* Deserializer::parse_integer from the digits not yet read: the digits are
\* gathered in a u64 while they fit; from the first that does not,
\* parse_long_integer drops the digits and counts them in the exponent.
ParseInteger(significand, digits) ==
    IF digits = <<>> THEN [significand |-> significand, exponent |-> 0]
    ELSE IF Overflow(significand, Head(digits))
    THEN [significand |-> significand, exponent |-> Len(digits)]
    ELSE ParseInteger(Widen(MulAdd(significand, 10, Head(digits)), 8), Tail(digits))

\* Deserializer::f64_from_parts with an exponent that is not negative:
\* `significand as f64` times POW10[exponent], each rounded to an f64.
F64FromParts(neg, significand, exponent) ==
    IF BitsOf(significand) = {} THEN F64(neg, 0, 0)
    ELSE LET f == BytesOfBits(RoundedBits(BitsOf(significand)), 9)
             product == Widen(MulAdd(f, 10 ^ exponent, 0), 12)
         IN F64OfBits(neg, RoundedBits(BitsOf(product)))

\* The ParserNumber of an integer literal (Deserializer::parse_integer,
\* parse_long_integer, parse_number): a literal whose digits overflow a u64
\* is an f64 from parts; a literal without sign is a u64; a negative one is
\* an i64 unless (significand as i64).wrapping_neg() >= 0, which is "-0" and
\* the magnitudes above 2^63: these are the f64 -(significand as f64).
ParserNumber(lit) ==
    LET parsed == ParseInteger(Fill(8, 0), LiteralDigits(lit.mag))
        significand == parsed.significand
        wraps == \/ BitsOf(significand) = {}
                 \/ significand[8] >= 128 /\ significand # ShlBytes(U64(128), 7)
    IN IF parsed.exponent > 0
       THEN [is |-> "f64", float |-> F64FromParts(lit.neg, significand, parsed.exponent)]
       ELSE IF ~lit.neg THEN [is |-> "u64", float |-> F64(FALSE, 0, 0)]
       ELSE IF wraps THEN [is |-> "f64", float |-> F64FromInteger(TRUE, significand)]
       ELSE [is |-> "i64", float |-> F64(FALSE, 0, 0)]

\* ValueVisitor::visit_i64
VisitI64(neg, mag) == Ok(Integer(I64(neg, mag)))

\* ValueVisitor::visit_u64 on a u64 (eight bytes): value <= i64::MAX is its
\* highest bit being clear.
VisitU64(v) ==
    IF v[8] < 128 THEN Ok(Integer(I64(FALSE, v)))
    ELSE Err([error |-> "i64 out of range", value |-> v])

\* ValueVisitor::visit_f64
VisitF64(f) == Ok(Float(f))

\* The number of a JSON text as serde_json hands it to the visitor of
\* deserialize_any: a u64 to visit_u64, an i64 to visit_i64, an f64 to
\* visit_f64.
VisitNumber(lit) ==
    LET n == ParserNumber(lit)
    IN IF n.is = "u64" THEN VisitU64(SliceTo(lit.mag, 8))
       ELSE IF n.is = "i64" THEN VisitI64(TRUE, lit.mag)
       ELSE VisitF64(n.float)

\* The length in bytes of the UTF-8 character that begins with byte b; 0
\* for a byte that begins none.
CharLen(b) ==
    IF b < 128 THEN 1
    ELSE IF b >= 194 /\ b < 224 THEN 2
    ELSE IF b >= 224 /\ b < 240 THEN 3
    ELSE IF b >= 240 /\ b < 245 THEN 4
    ELSE 0

\* The character of a text (a str: UTF-8) at byte i: its length in bytes and
\* its code point; length 0 where no character begins at i.
CharAt(s, i) ==
    LET n == IF i >= 1 /\ i <= Len(s) THEN CharLen(s[i]) ELSE 0
        whole == /\ n > 0
                 /\ i + n - 1 <= Len(s)
                 /\ \A k \in (i + 1)..(i + n - 1) : s[k] >= 128 /\ s[k] < 192
        low(k) == s[i + k] - 128
    IN IF ~whole THEN [len |-> 0, code |-> 0]
       ELSE [len |-> n,
             code |-> CASE n = 1 -> s[i]
                        [] n = 2 -> (s[i] - 192) * 64 + low(1)
                        [] n = 3 -> (s[i] - 224) * 4096 + low(1) * 64 + low(2)
                        [] OTHER -> (s[i] - 240) * 262144 + low(1) * 4096
                                        + low(2) * 64 + low(3)]

\* The digit zero of every run of ten decimal digits of Unicode 16.0
\* (general category Nd), which is what \d of the regex crate matches.
DecimalZeros ==
    {48, 1632, 1776, 1984, 2406, 2534, 2662, 2790, 2918, 3046, 3174, 3302,
     3430, 3558, 3664, 3792, 3872, 4160, 4240, 6112, 6160, 6470, 6608,
     6784, 6800, 6992, 7088, 7232, 7248, 42528, 43216, 43264, 43472, 43504,
     43600, 44016, 65296, 66720, 68912, 68928, 69734, 69872, 69942, 70096,
     70384, 70736, 70864, 71248, 71360, 71376, 71386, 71472, 71904, 72016,
     72688, 72784, 73040, 73120, 73552, 90416, 92768, 92864, 93008, 93552,
     118000, 120782, 120792, 120802, 120812, 120822, 123200, 123632,
     124144, 124401, 125264, 130032}

\* \d
IsDigit(c) == \E z \in DecimalZeros : c >= z /\ c <= z + 9

RECURSIVE Digits(_, _, _)
\* \d{n} from byte i: the position after it, 0 where the text has no n
\* digits there.
Digits(s, i, n) ==
    IF n = 0 \/ i = 0 THEN i
    ELSE LET c == CharAt(s, i)
         IN IF c.len > 0 /\ IsDigit(c.code) THEN Digits(s, i + c.len, n - 1)
            ELSE 0

\* One byte b at byte i: the position after it, 0 where the text has
\* another.
Literal(s, i, b) == IF i >= 1 /\ i <= Len(s) /\ s[i] = b THEN i + 1 ELSE 0

\* The text from byte i on begins with
\* \d{4}-\d{2}-\d{2}T\d{2}:\d{2}:\d{2}(\.\d+)?Z
TimestampAt(s, i) ==
    LET year == Literal(s, Digits(s, i, 4), 45)
        month == Literal(s, Digits(s, year, 2), 45)
        day == Literal(s, Digits(s, month, 2), 84)
        hour == Literal(s, Digits(s, day, 2), 58)
        minute == Literal(s, Digits(s, hour, 2), 58)
        second == Digits(s, minute, 2)
    IN \/ Literal(s, second, 90) # 0
       \/ \E n \in 1..Len(s) :
            Literal(s, Digits(s, Literal(s, second, 46), n), 90) # 0

\* RE.is_match: the expression is met somewhere in the text.
IsMatch(s) == \E i \in 1..Len(s) : TimestampAt(s, i)

\* ValueVisitor::visit_string in which a text with the mark of a seal that
\* is no seal of T is an error.
VisitStringStrict(t, input) ==
    LET seal == SealFromStr(t, input)
        raw == FromHex(input)
    IN IF seal.kind = "Panic" THEN Panic
       ELSE IF seal.kind = "Ok" THEN Ok(Redacted(seal.val))
       ELSE IF seal.err.error # "NotRedacted" THEN Err([error |-> "seal", cause |-> seal.err])
       ELSE IF raw.kind = "Ok" THEN Ok(Raw(raw.val))
       ELSE IF IsMatch(input) THEN Ok(Timestamp(input))
       ELSE Ok(String(input))

\* ValueVisitor::visit_string
VisitString(t, input) ==
    LET seal == SealFromStr(t, input)
        raw == FromHex(input)
    IN IF seal.kind = "Panic" THEN Panic
       ELSE IF seal.kind = "Ok" THEN Ok(Redacted(seal.val))
       ELSE IF raw.kind = "Ok" THEN Ok(Raw(raw.val))
       ELSE IF IsMatch(input) THEN Ok(Timestamp(input))
       ELSE Ok(String(input))

\* The first result in order that is no Ok, where there is one.
FirstFailure(results) ==
    LET bad == {i \in 1..Len(results) : results[i].kind # "Ok"}
    IN results[CHOOSE i \in bad : \A j \in bad : i <= j]

AllOk(results) == \A i \in 1..Len(results) : results[i].kind = "Ok"

\* HashMap::insert over the entries of an object in the order of the text: a
\* key met again keeps its place and takes the later value. The order of the
\* entries stands for one iteration order of the HashMap.
Inserted(entries) ==
    LET firsts == {i \in 1..Len(entries) :
                      \A j \in 1..(i - 1) : entries[j].key # entries[i].key}
        Last(i) == CHOOSE j \in i..Len(entries) :
                      /\ entries[j].key = entries[i].key
                      /\ \A k \in (j + 1)..Len(entries) : entries[k].key # entries[i].key
        Nth(n) == CHOOSE i \in firsts : Cardinality({j \in firsts : j < i}) = n - 1
    IN [n \in 1..Cardinality(firsts) |->
           [key |-> entries[Nth(n)].key, value |-> entries[Last(Nth(n))].value]]

\* ValueVisitor::visit_seq on the results of next_element, each a Value<T>
\* read by Deserialize for Value<T>.
VisitSeq(schema, elems) ==
    IF ~AllOk(elems) THEN FirstFailure(elems)
    ELSE LET vec == [i \in 1..Len(elems) |-> elems[i].val]
         IN IF schema = "SeqAsList" THEN Ok(List(vec)) ELSE Ok(Set(vec))

\* ValueVisitor::visit_map on the results of next_entry, each value a
\* Value<T> read by Deserialize for Value<T>.
VisitMap(entries) ==
    LET values == [i \in 1..Len(entries) |-> entries[i].value] IN
    IF ~AllOk(values) THEN FirstFailure(values)
    ELSE Ok(Dict(Inserted([i \in 1..Len(entries) |->
                              [key |-> entries[i].key, value |-> entries[i].value.val]])))

RECURSIVE DeserializeAny(_, _, _)
\* deserializer.deserialize_any(ValueVisitor(schema, PhantomData)) on a JSON
\* text: the visitor's method for the kind of the text. The elements of an
\* array and the values of an object are of type Value<T>, whose Deserialize
\* takes the SeqAsList schema.
DeserializeAny(schema, t, doc) ==
    CASE doc.kind = "JNull" -> Ok(Null)
      [] doc.kind = "JBool" -> Ok(Bool(doc.val))
      [] doc.kind = "JInteger" -> VisitNumber(doc.val)
      [] doc.kind = "JNumber" -> VisitF64(doc.val.float)
      [] doc.kind = "JString" -> VisitString(t, doc.val)
      [] doc.kind = "JArray" ->
            VisitSeq(schema, [i \in 1..Len(doc.val) |->
                                 DeserializeAny("SeqAsList", t, doc.val[i])])
      [] doc.kind = "JObject" ->
            VisitMap([i \in 1..Len(doc.val) |->
                         [key |-> doc.val[i].key,
                          value |-> DeserializeAny("SeqAsList", t, doc.val[i].value)]])

\* struct ValueSet<T>(Value<T>)
ValueSet(v) == [kind |-> "ValueSet", val |-> v]

\* impl Deserialize for Value<T>
DeserializeValue(t, doc) == DeserializeAny("SeqAsList", t, doc)

\* impl Deserialize for ValueSet<T>
DeserializeValueSet(t, doc) ==
    LET res == DeserializeAny("SeqAsSet", t, doc)
    IN IF res.kind = "Ok" THEN Ok(ValueSet(res.val)) ELSE res

-----------------------------------------------------------------------------
(* SpecDe: a JSON text is read as a Value<T> or as a ValueSet<T>.           *)

\* Arrays and objects of the texts have up to MaxDeLen members.
MaxDeLen == 2

\* The hex text of a seal of algorithm a with a digest of its length.
SealHex(a) == ToHex(AlgCode(a) \o <<AlgLength(a)>> \o Fill(AlgLength(a), 171))

TimestampText ==
    Str(<<"2", "0", "1", "8", "-", "1", "0", "-", "1", "3", "T",
          "1", "5", ":", "5", "0", ":", "0", "0">>)

\* "\u0662\u0660\u0661\u0668-10-13T15:50:00Z", "2018-10-13T15:50:00.\u0665Z",
\* "2018-10-13T15:50:0\uFF10Z" and "2018-10-13T15:50:0\u00E9Z" in UTF-8:
\* Arabic-Indic digits, a fullwidth digit and a letter.
ArabicYearText ==
    <<217, 162, 217, 160, 217, 161, 217, 168>> \o SubSeq(TimestampText, 5, 19) \o <<90>>
ArabicFractionText == TimestampText \o <<46, 217, 165, 90>>
FullwidthSecondText == SliceTo(TimestampText, 18) \o <<239, 188, 144, 90>>
LetterSecondText == SliceTo(TimestampText, 18) \o <<195, 169, 90>>

DeStrings(t) ==
    {<<>>, Str(<<"a">>), Str(<<"a", "b">>), Str(<<"A", "B">>), Str(<<"a", "B">>),
     Str(<<"a", "b", "c">>), Str(<<"z", "z">>), Str(<<"0", "g">>),
     Str(<<"1", "2", "2", "0">>),
     MarkPrefix, MarkPrefix \o Str(<<"1", "2">>), MarkPrefix \o Str(<<"z", "z">>),
     MarkPrefix \o SealHex(t), RedactedPrefix \o SealHex(t),
     MarkPrefix \o SealHex(OtherAlgorithm(t)),
     RedactedPrefix \o SealHex(OtherAlgorithm(t)),
     SealHex(t),
     TimestampText, TimestampText \o Str(<<"Z">>),
     TimestampText \o Str(<<".", "5", "Z">>), TimestampText \o Str(<<".", "Z">>),
     Str(<<"a">>) \o TimestampText \o Str(<<"Z", "a">>),
     ArabicYearText, ArabicFractionText, FullwidthSecondText, LetterSecondText}

\* 2^63 - 1, 2^63, 2^63 + 1, 2^64 - 1 and 2^64 in nine bytes.
I64Max == Fill(7, 255) \o <<127, 0>>
I64MaxPlus1 == Fill(7, 0) \o <<128, 0>>
I64MaxPlus2 == <<1>> \o Fill(6, 0) \o <<128, 0>>
U64Max == Fill(8, 255) \o <<0>>
U64MaxPlus1 == Fill(8, 0) \o <<1>>

\* The literal "-0".
MinusZero == JLiteral(TRUE, Fill(9, 0))

\* 2^65 - 2^11 and 2^64 + 2^40 - 2^11: literals of twenty digits, read as
\* their nineteen leading digits times ten.
LongInteger1 == <<0, 248>> \o Fill(6, 255) \o <<1>>
LongInteger2 == <<0, 248, 255, 255, 255, 0, 0, 0, 1>>

DeIntegers ==
    {JLit(0), JLit(1), JLit(12), JLit(-3), MinusZero,
     JLiteral(FALSE, LongInteger1), JLiteral(FALSE, LongInteger2),
     JLiteral(TRUE, LongInteger2),
     JLiteral(FALSE, <<0, 0, 0, 128, 0, 0, 0, 0, 0>>),
     JLiteral(FALSE, I64Max), JLiteral(FALSE, I64MaxPlus1),
     JLiteral(FALSE, U64Max), JLiteral(FALSE, U64MaxPlus1),
     JLiteral(TRUE, I64Max), JLiteral(TRUE, I64MaxPlus1),
     JLiteral(TRUE, I64MaxPlus2), JLiteral(TRUE, U64MaxPlus1)}

DeLeaves(t) ==
    {JNull, JBool(TRUE), JFloat(F64(FALSE, 3, -1))}
        \cup DeIntegers \cup {JString(x) : x \in DeStrings(t)}

\* The members of the arrays and objects: leaves, arrays and an object.
DeElements ==
    {JLit(1), JString(Str(<<"a", "b">>)), JArray(<<>>), JArray(<<JLit(1)>>),
     JArray(<<JArray(<<JLit(1)>>)>>),
     JObject(<<[key |-> Str(<<"a">>), value |-> JArray(<<JLit(1)>>)]>>)}

DeDocs(t) ==
    DeLeaves(t)
        \cup {JArray(q) : q \in SeqsUpTo(DeElements, MaxDeLen)}
        \cup {JObject(q) : q \in SeqsUpTo([key : Keys, value : DeElements], MaxDeLen)}

DeInit ==
    /\ pc = "de"
    /\ deT \in Algorithms
    /\ deDoc \in DeDocs(deT)
    /\ deMode \in {"Value", "ValueSet"}
    /\ deRes = Idle
    /\ UvarIdle /\ SealIdle /\ HashIdle /\ hashText = Idle /\ BufIdle /\ RegIdle /\ StepIdle

\* serde_json::from_str::<Value<T>>(text)
ReadValue ==
    /\ pc = "de" /\ deMode = "Value"
    /\ pc' = "de-done"
    /\ deRes' = DeserializeValue(deT, deDoc)
    /\ UNCHANGED <<uvarVars, sealVars, hashVars, hashText, bufVars, deDoc, deMode, deT, regVars, stepVars>>

\* serde_json::from_str::<ValueSet<T>>(text)
ReadValueSet ==
    /\ pc = "de" /\ deMode = "ValueSet"
    /\ pc' = "de-done"
    /\ deRes' = DeserializeValueSet(deT, deDoc)
    /\ UNCHANGED <<uvarVars, sealVars, hashVars, hashText, bufVars, deDoc, deMode, deT, regVars, stepVars>>

DeNext == ReadValue \/ ReadValueSet

SpecDe == DeInit /\ [][DeNext]_vars

\* The Value<T> that was read, in either mode.
DeValue == IF deMode = "ValueSet" THEN deRes.val.val ELSE deRes.val

\* A text was read that is a string on which Seal::from_str fails.
NoSealRead ==
    /\ pc = "de-done"
    /\ deDoc.kind = "JString"
    /\ SealFromStr(deT, deDoc.val).kind = "Err"

IsLowerHex(c) == (c >= 48 /\ c <= 57) \/ (c >= 97 /\ c <= 102)

LowerHexEven(s) == Len(s) % 2 = 0 /\ \A i \in 1..Len(s) : IsLowerHex(s[i])

\* C14: a JSON string that is no seal is read as Raw exactly when it is made
\* of lowercase hex digits only and of even length, and then as Raw of the
\* bytes it spells; a string with an uppercase hex digit is not read as Raw.
C14_RawIffLowerHex ==
    NoSealRead =>
        /\ deRes.kind = "Ok"
        /\ (DeValue.kind = "Raw") <=> LowerHexEven(deDoc.val)
        /\ DeValue.kind = "Raw" => DeValue.val = FromHex(deDoc.val).val

\* The text is the mark, then the hex of a seal of another algorithm than T.
WrongAlgorithmSeal ==
    /\ deDoc.kind = "JString"
    /\ deDoc.val = MarkPrefix \o SealHex(OtherAlgorithm(deT))

\* C15: a JSON string on which Seal::from_str fails is still read, as a Raw,
\* a Timestamp or a String; a marked hex seal of another algorithm than T is
\* read as Raw of all its bytes, the 0x77 of the mark first.
C15_SealFailureStillReads ==
    NoSealRead =>
        /\ deRes.kind = "Ok"
        /\ DeValue.kind \in {"Raw", "Timestamp", "String"}
        /\ DeValue.kind \in {"Timestamp", "String"} => DeValue.val = deDoc.val
        /\ WrongAlgorithmSeal =>
              DeValue = Raw(<<SEAL_MARK>> \o AlgCode(OtherAlgorithm(deT))
                               \o <<AlgLength(OtherAlgorithm(deT))>>
                               \o Fill(AlgLength(OtherAlgorithm(deT)), 171))

\* A marked seal of another algorithm was read on which from_str failed with
\* InvalidStamp.
C15_Witness ==
    /\ NoSealRead
    /\ WrongAlgorithmSeal
    /\ SealFromStr(deT, deDoc.val).err.error = "InvalidStamp"
    /\ deRes.kind = "Ok"

\* -2^63 <= n <= 2^63 - 1 for the literal n.
InI64Range(lit) ==
    /\ lit.mag[9] = 0
    /\ \/ lit.mag[8] < 128
       \/ lit.neg /\ lit.mag = I64MaxPlus1

\* C16: a JSON integer within the range of i64 is read as Integer of that
\* number; one outside the range fails with `i64 out of range`.
C16_IntegerRange ==
    pc = "de-done" /\ deDoc.kind = "JInteger" =>
        IF InI64Range(deDoc.val)
        THEN deRes.kind = "Ok"
               /\ DeValue = Integer(I64(deDoc.val.neg, deDoc.val.mag))
        ELSE deRes.kind = "Err" /\ deRes.err.error = "i64 out of range"

RECURSIVE HasKind(_, _)
\* A value of the given kind is found in v at some depth.
HasKind(v, kind) ==
    \/ v.kind = kind
    \/ v.kind \in {"List", "Set"} /\ \E i \in 1..Len(v.val) : HasKind(v.val[i], kind)
    \/ v.kind = "Dict" /\ \E i \in 1..Len(v.val) : HasKind(v.val[i].value, kind)

\* C17: read as a ValueSet, every array of the text at every depth is a Set;
\* read as a Value, every array is a List.
C17_SetModeRecursive ==
    pc = "de-done" /\ deRes.kind = "Ok" =>
        /\ deMode = "ValueSet" => ~HasKind(DeValue, "List")
        /\ deMode = "Value" => ~HasKind(DeValue, "Set")
        /\ deDoc.kind = "JArray" =>
              DeValue.kind = IF deMode = "ValueSet" THEN "Set" ELSE "List"

-----------------------------------------------------------------------------
(* SpecSets: sequences_as_sets is applied to a value.                       *)

SetsInit ==
    /\ pc = "sets"
    /\ hashT \in Algorithms
    /\ value \in Values(hashT)
    /\ changed = Idle
    /\ hashAlg = Idle /\ before = Idle /\ op = Idle /\ after = Idle
    /\ UvarIdle /\ SealIdle /\ RestIdle

\* value.sequences_as_sets()
AsSets ==
    /\ pc = "sets"
    /\ pc' = "sets-done"
    /\ changed' = SequencesAsSets(value)
    /\ UNCHANGED <<uvarVars, sealVars, hashT, hashAlg, value, before, op, after, restVars>>

SetsNext == AsSets

SpecSets == SetsInit /\ [][SetsNext]_vars

RECURSIVE EveryListASet(_)
\* v with every List in it, at every depth, turned into the Set of the
\* same elements, themselves rewritten, and every other node kept.
EveryListASet(v) ==
    CASE v.kind \in {"List", "Set"} ->
            Set([i \in 1..Len(v.val) |-> EveryListASet(v.val[i])])
      [] v.kind = "Dict" ->
            Dict([i \in 1..Len(v.val) |->
                     [key |-> v.val[i].key, value |-> EveryListASet(v.val[i].value)]])
      [] OTHER -> v

\* C18: the result of sequences_as_sets holds no List at any depth: lists in
\* lists, in sets and in dict values are all Sets of the same elements, and
\* every other node is kept.
C18_EveryListRewritten ==
    pc = "sets-done" =>
        /\ ~HasKind(changed, "List")
        /\ changed = EveryListASet(value)

-----------------------------------------------------------------------------
(* blot-lib/src/multihash.rs: the lookups of a Stamp *)

\* impl From<u64> for Stamp: unimplemented!() on any other code.
StampFromU64(code) ==
    CASE code = U64(17) -> Ok("Sha1")   \* 0x11
      [] code = U64(18) -> Ok("Sha2256")   \* 0x12
      [] code = U64(19) -> Ok("Sha2512")   \* 0x13
      [] code = U64(20) -> Ok("Sha3512")   \* 0x14
      [] code = U64(21) -> Ok("Sha3384")   \* 0x15
      [] code = U64(22) -> Ok("Sha3256")   \* 0x16
      [] code = U64(23) -> Ok("Sha3224")   \* 0x17
      [] code = U64(45632) -> Ok("Blake2b512")   \* 0xb240
      [] code = U64(45664) -> Ok("Blake2s256")   \* 0xb260
      [] OTHER -> Panic

\* The match of From<Uvar> for Result<Stamp, StampError> on n.
StampMatch(n) ==
    CASE n = U64(17) -> Ok("Sha1")   \* 0x11
      [] n = U64(18) -> Ok("Sha2256")   \* 0x12
      [] n = U64(19) -> Ok("Sha2512")   \* 0x13
      [] n = U64(20) -> Ok("Sha3512")   \* 0x14
      [] n = U64(21) -> Ok("Sha3384")   \* 0x15
      [] n = U64(22) -> Ok("Sha3256")   \* 0x16
      [] n = U64(23) -> Ok("Sha3224")   \* 0x17
      [] n = U64(45632) -> Ok("Blake2b512")   \* 0xb240
      [] n = U64(45664) -> Ok("Blake2s256")   \* 0xb260
      [] OTHER -> Err("Unknown")

\* From<Uvar> for Result<Stamp, StampError> reading the bytes lowest first.
StampFromUvarLowFirst(code, overflowChecks) ==
    LET n == U64FromUvarLowFirst(code, overflowChecks)
    IN IF n.kind = "Panic" THEN Panic ELSE StampMatch(n.val)

\* impl From<Uvar> for Result<Stamp, StampError>: let n: u64 = code.into()
StampFromUvar(code, overflowChecks) ==
    LET n == U64FromUvar(code, overflowChecks)
    IN IF n.kind = "Panic" THEN Panic ELSE StampMatch(n.val)

\* impl From<&str> for Stamp: unimplemented!() on any other name.
StampFromName(name) ==
    CASE name = "sha1" -> Ok("Sha1")
      [] name = "sha2-256" -> Ok("Sha2256")
      [] name = "sha2-512" -> Ok("Sha2512")
      [] name = "sha3-512" -> Ok("Sha3512")
      [] name = "sha3-384" -> Ok("Sha3384")
      [] name = "sha3-256" -> Ok("Sha3256")
      [] name = "sha3-224" -> Ok("Sha3224")
      [] name = "blake2b-512" -> Ok("Blake2b512")
      [] name = "blake2s-256" -> Ok("Blake2s256")
      [] OTHER -> Panic

\* impl FromStr for Stamp
StampFromStr(name) ==
    CASE name = "sha1" -> Ok("Sha1")
      [] name = "sha2-256" -> Ok("Sha2256")
      [] name = "sha2-512" -> Ok("Sha2512")
      [] name = "sha3-512" -> Ok("Sha3512")
      [] name = "sha3-384" -> Ok("Sha3384")
      [] name = "sha3-256" -> Ok("Sha3256")
      [] name = "sha3-224" -> Ok("Sha3224")
      [] name = "blake2b-512" -> Ok("Blake2b512")
      [] name = "blake2s-256" -> Ok("Blake2s256")
      [] OTHER -> Err("Unknown")

\* Stamp::name, Stamp::code and Stamp::length of one Stamp.
StampRow(a) == [name |-> AlgName(a), code |-> AlgCode(a), length |-> AlgLength(a)]

-----------------------------------------------------------------------------
(* src/multihash.rs: the Tag of the blot crate and its lookups *)

\* enum Tag
Tags ==
    {"Sha1", "Sha2256", "Sha2512", "Sha3512", "Sha3384", "Sha3256", "Sha3224",
     "Blake2b256", "Blake2b512", "Blake2s256"}

\* impl From<u64> for Tag: unimplemented!() on any other code.
TagFromU64(code) ==
    CASE code = U64(17) -> Ok("Sha1")   \* 0x11
      [] code = U64(18) -> Ok("Sha2256")   \* 0x12
      [] code = U64(19) -> Ok("Sha2512")   \* 0x13
      [] code = U64(20) -> Ok("Sha3512")   \* 0x14
      [] code = U64(21) -> Ok("Sha3384")   \* 0x15
      [] code = U64(22) -> Ok("Sha3256")   \* 0x16
      [] code = U64(23) -> Ok("Sha3224")   \* 0x17
      [] code = U64(45600) -> Ok("Blake2b256")   \* 0xb220
      [] code = U64(45632) -> Ok("Blake2b512")   \* 0xb240
      [] code = U64(45664) -> Ok("Blake2s256")   \* 0xb260
      [] OTHER -> Panic

\* impl From<Tag> for u64, which Tag::code returns
TagCode(tag) ==
    CASE tag = "Sha1" -> U64(17)             \* 0x11
      [] tag = "Sha2256" -> U64(18)          \* 0x12
      [] tag = "Sha2512" -> U64(19)          \* 0x13
      [] tag = "Sha3512" -> U64(20)          \* 0x14
      [] tag = "Sha3384" -> U64(21)          \* 0x15
      [] tag = "Sha3256" -> U64(22)          \* 0x16
      [] tag = "Sha3224" -> U64(23)          \* 0x17
      [] tag = "Blake2b256" -> U64(45600)    \* 0xb220
      [] tag = "Blake2b512" -> U64(45632)    \* 0xb240
      [] tag = "Blake2s256" -> U64(45664)    \* 0xb260

\* impl From<Tag> for &str, which Tag::name returns
TagName(tag) ==
    CASE tag = "Sha1" -> "sha1"
      [] tag = "Sha2256" -> "sha2-256"
      [] tag = "Sha2512" -> "sha2-512"
      [] tag = "Sha3512" -> "sha3-512"
      [] tag = "Sha3384" -> "sha3-384"
      [] tag = "Sha3256" -> "sha3-256"
      [] tag = "Sha3224" -> "sha3-224"
      [] tag = "Blake2b256" -> "blake2b-256"
      [] tag = "Blake2b512" -> "blake2b-512"
      [] tag = "Blake2s256" -> "blake2s-256"

\* impl From<&str> for Tag: unimplemented!() on any other name.
TagFromName(name) ==
    CASE name = "sha1" -> Ok("Sha1")
      [] name = "sha2-256" -> Ok("Sha2256")
      [] name = "sha2-512" -> Ok("Sha2512")
      [] name = "sha3-512" -> Ok("Sha3512")
      [] name = "sha3-384" -> Ok("Sha3384")
      [] name = "sha3-256" -> Ok("Sha3256")
      [] name = "sha3-224" -> Ok("Sha3224")
      [] name = "blake2b-256" -> Ok("Blake2b256")
      [] name = "blake2b-512" -> Ok("Blake2b512")
      [] name = "blake2s-256" -> Ok("Blake2s256")
      [] OTHER -> Panic

\* Tag::length
TagLength(tag) ==
    CASE tag = "Sha1" -> 20
      [] tag = "Sha2256" -> 32
      [] tag = "Sha2512" -> 64
      [] tag = "Sha3512" -> 64
      [] tag = "Sha3384" -> 48
      [] tag = "Sha3256" -> 32
      [] tag = "Sha3224" -> 28
      [] tag = "Blake2b256" -> 32
      [] tag = "Blake2b512" -> 64
      [] tag = "Blake2s256" -> 32

\* Tag::name, Tag::code and Tag::length of one Tag: what From<Tag> for Bag
\* puts in the Bag.
TagRow(tag) == [name |-> TagName(tag), code |-> TagCode(tag), length |-> TagLength(tag)]

-----------------------------------------------------------------------------
(* SpecRegistry: a Stamp or a Tag is looked up by name or by code, or      *)
(* described.                                                              *)

\* Names and codes that are no Stamp; blake2b-256 (0xb220) is a Tag.
UnknownNames == {"", "sha2", "SHA1", "sha1 ", "sha3-128", "blake2b-256", "md5"}

UnknownUvars ==
    {<<>>, <<0>>, <<16>>, <<24>>, <<178, 32>>, <<178, 65>>, <<64, 178>>, <<17, 0>>,
     <<128, 128, 17>>, Fill(8, 128) \o <<17>>, Fill(9, 128) \o <<1>>}

UnknownU64s == {U64(0), U64(16), U64(24), U64(45600), U64(4352), Fill(8, 255)}

Query(by, name, bytes) == [by |-> by, name |-> name, bytes |-> bytes]

Queries ==
    {Query("name", n, <<>>) : n \in {AlgName(a) : a \in Algorithms} \cup UnknownNames}
        \cup {Query("code", "", c) : c \in {AlgCode(a) : a \in Algorithms} \cup UnknownUvars}
        \cup {Query("u64", "", n) : n \in {U64(CodeNumber(a)) : a \in Algorithms} \cup UnknownU64s}
        \cup {Query("stamp", a, <<>>) : a \in Algorithms}
        \cup {Query("tag", tag, <<>>) : tag \in Tags}

Answer(via, res) == [via |-> via, res |-> res]

RegistryInit ==
    /\ pc = "registry"
    /\ regQuery \in Queries
    /\ regRes = Idle
    /\ UvarIdle /\ SealIdle /\ HashIdle /\ hashText = Idle /\ BufIdle /\ DeIdle /\ StepIdle

\* name.parse::<Stamp>()
LookupFromStr ==
    /\ pc = "registry" /\ regQuery.by = "name"
    /\ pc' = "registry-done"
    /\ regRes' = Answer("FromStr", StampFromStr(regQuery.name))
    /\ UNCHANGED <<uvarVars, sealVars, hashVars, hashText, bufVars, deVars, regQuery, stepVars>>

\* Stamp::from(name)
LookupFromName ==
    /\ pc = "registry" /\ regQuery.by = "name"
    /\ pc' = "registry-done"
    /\ regRes' = Answer("From<&str>", StampFromName(regQuery.name))
    /\ UNCHANGED <<uvarVars, sealVars, hashVars, hashText, bufVars, deVars, regQuery, stepVars>>

\* Result::<Stamp, StampError>::from(uvar)
LookupFromUvar ==
    /\ pc = "registry" /\ regQuery.by = "code"
    /\ pc' = "registry-done"
    /\ \E overflowChecks \in BOOLEAN :
          regRes' = Answer("From<Uvar>", StampFromUvar(regQuery.bytes, overflowChecks))
    /\ UNCHANGED <<uvarVars, sealVars, hashVars, hashText, bufVars, deVars, regQuery, stepVars>>

\* Stamp::from(code)
LookupFromU64 ==
    /\ pc = "registry" /\ regQuery.by = "u64"
    /\ pc' = "registry-done"
    /\ regRes' = Answer("From<u64>", StampFromU64(regQuery.bytes))
    /\ UNCHANGED <<uvarVars, sealVars, hashVars, hashText, bufVars, deVars, regQuery, stepVars>>

\* stamp.name(), stamp.code(), stamp.length()
Describe ==
    /\ pc = "registry" /\ regQuery.by = "stamp"
    /\ pc' = "registry-done"
    /\ regRes' = Answer("row", Ok(StampRow(regQuery.name)))
    /\ UNCHANGED <<uvarVars, sealVars, hashVars, hashText, bufVars, deVars, regQuery, stepVars>>

\* Tag::from(name)
LookupTagFromName ==
    /\ pc = "registry" /\ regQuery.by = "name"
    /\ pc' = "tag-done"
    /\ regRes' = Answer("Tag::From<&str>", TagFromName(regQuery.name))
    /\ UNCHANGED <<uvarVars, sealVars, hashVars, hashText, bufVars, deVars, regQuery, stepVars>>

\* Tag::from(code)
LookupTagFromU64 ==
    /\ pc = "registry" /\ regQuery.by = "u64"
    /\ pc' = "tag-done"
    /\ regRes' = Answer("Tag::From<u64>", TagFromU64(regQuery.bytes))
    /\ UNCHANGED <<uvarVars, sealVars, hashVars, hashText, bufVars, deVars, regQuery, stepVars>>

\* tag.name(), tag.code(), tag.length()
DescribeTag ==
    /\ pc = "registry" /\ regQuery.by = "tag"
    /\ pc' = "tag-done"
    /\ regRes' = Answer("row", Ok(TagRow(regQuery.name)))
    /\ UNCHANGED <<uvarVars, sealVars, hashVars, hashText, bufVars, deVars, regQuery, stepVars>>

RegistryNext ==
    \/ LookupFromStr \/ LookupFromName \/ LookupFromUvar \/ LookupFromU64 \/ Describe
    \/ LookupTagFromName \/ LookupTagFromU64 \/ DescribeTag

SpecRegistry == RegistryInit /\ [][RegistryNext]_vars

\* The table of the algorithms: name, bytes of the code, digest length.
Table ==
    {[name |-> "sha1", code |-> <<17>>, length |-> 20],
     [name |-> "sha2-256", code |-> <<18>>, length |-> 32],
     [name |-> "sha2-512", code |-> <<19>>, length |-> 64],
     [name |-> "sha3-512", code |-> <<20>>, length |-> 64],
     [name |-> "sha3-384", code |-> <<21>>, length |-> 48],
     [name |-> "sha3-256", code |-> <<22>>, length |-> 32],
     [name |-> "sha3-224", code |-> <<23>>, length |-> 28],
     [name |-> "blake2b-512", code |-> <<178, 64>>, length |-> 64],
     [name |-> "blake2s-256", code |-> <<178, 96>>, length |-> 32]}

\* The value of a code of up to eight bytes, highest byte first, as a u64.
CodeValue(bytes) == [i \in 1..8 |-> IF i <= Len(bytes) THEN bytes[Len(bytes) + 1 - i] ELSE 0]

\* The rows of the table with the code as the u64 a Tag gives.
TableOfU64 ==
    {[name |-> row.name, code |-> CodeValue(row.code), length |-> row.length] : row \in Table}

\* The row of blake2b-256, which the table does not have.
Blake2b256Row == [name |-> "blake2b-256", code |-> CodeValue(<<178, 32>>), length |-> 32]

\* A lookup of Stamp has ended: Stamp holds exactly the algorithms whose rows
\* are given, and the name and the code of each row find its algorithm.
StampHolds(rows) ==
    pc = "registry-done" =>
        /\ Cardinality(Algorithms) = Cardinality(rows)
        /\ {StampRow(a) : a \in Algorithms} = rows
        /\ regQuery.by = "stamp" => regRes.res.val \in rows
        /\ \A row \in rows :
              /\ regQuery.by = "name" /\ regQuery.name = row.name =>
                    regRes.res.kind = "Ok" /\ StampRow(regRes.res.val) = row
              /\ regQuery.by = "code" /\ regQuery.bytes = row.code =>
                    regRes.res.kind = "Ok" /\ StampRow(regRes.res.val) = row
              /\ regQuery.by = "u64" /\ regQuery.bytes = CodeValue(row.code) =>
                    regRes.res.kind = "Ok" /\ StampRow(regRes.res.val) = row

\* The same of a lookup of Tag, whose codes are u64s.
TagHolds(rows) ==
    pc = "tag-done" =>
        /\ Cardinality(Tags) = Cardinality(rows)
        /\ {TagRow(tag) : tag \in Tags} = rows
        /\ regQuery.by = "tag" => regRes.res.val \in rows
        /\ \A row \in rows :
              /\ regQuery.by = "name" /\ regQuery.name = row.name =>
                    regRes.res.kind = "Ok" /\ TagRow(regRes.res.val) = row
              /\ regQuery.by = "u64" /\ regQuery.bytes = row.code =>
                    regRes.res.kind = "Ok" /\ TagRow(regRes.res.val) = row

UnknownQuery ==
    \/ regQuery.by = "name" /\ \A row \in Table : regQuery.name # row.name
    \/ regQuery.by = "code" /\ \A row \in Table : regQuery.bytes # row.code
    \/ regQuery.by = "u64" /\ \A row \in Table : regQuery.bytes # CodeValue(row.code)

\* C20: a lookup by a name or by a code that is not registered returns the
\* error Unknown, and never aborts.
C20_UnknownLookup ==
    pc = "registry-done" /\ UnknownQuery => regRes.res = Err("Unknown")

-----------------------------------------------------------------------------
(* Properties of the hash operation itself *)

\* C21: for every value and every registered algorithm the hash operation
\* returns a digest and never aborts, a serde_json value hashed through the
\* JSON bridge included.
C21_HashingCannotFail ==
    pc \in {"hashed", "json-hashed"} => before.kind = "Ok"

-----------------------------------------------------------------------------
(* SpecFloat: float_normalize runs on a double, a loop iteration a step.    *)

\* Mantissas 1..MaxMantissa and exponents -MaxExponent..MaxExponent are all
\* tried, besides the doubles at the ends of the range.
MaxMantissa == 9
MaxExponent == 6

\* The doubles at the ends: the smallest subnormals, the smallest normal,
\* the largest powers of two, long mantissas, and values about 1/2, 1, 2^31.
EdgeDoubles ==
    {<<1, -1074>>, <<3, -1074>>, <<1, -1022>>, <<1, 1023>>, <<7, 1021>>,
     <<2147483647, 993>>, <<2147483647, -31>>, <<2147483647, -30>>,
     <<2147483647, 0>>, <<1431655765, -31>>, <<1073741825, -30>>,
     <<1073741825, -1074>>, <<1, 31>>, <<1, -31>>, <<1, -32>>}

FloatInputs ==
    {F64(neg, m, x) : neg \in BOOLEAN, m \in 1..MaxMantissa,
                      x \in (-MaxExponent)..MaxExponent}
        \cup {F64(neg, d[1], d[2]) : neg \in BOOLEAN, d \in EdgeDoubles}
        \cup {F64(FALSE, 0, 0), F64(TRUE, 0, 0)}

FloatInit ==
    /\ pc = "float"
    /\ fin \in FloatInputs
    /\ ff = Local(0, 0) /\ fe = 0 /\ fs = <<>>
    /\ AbsorbIdle
    /\ UvarIdle /\ SealIdle /\ HashIdle /\ hashText = Idle /\ BufIdle /\ DeIdle /\ RegIdle

FloatOthers ==
    <<uvarVars, sealVars, hashVars, hashText, bufVars, deVars, regVars, absorbVars>>

\* if f == 0.0 { return "+0:" }
ReturnZero ==
    /\ pc = "float" /\ IsZero(fin)
    /\ pc' = "float-done"
    /\ fs' = ZeroText(fin)
    /\ UNCHANGED <<fin, ff, fe, FloatOthers>>

\* The sign is pushed, f is made positive and e is zero.
PushSign ==
    /\ pc = "float" /\ ~IsZero(fin)
    /\ pc' = "float-up"
    /\ fs' = <<SignChar(fin)>>
    /\ ff' = Local(fin.mant, fin.exp)
    /\ fe' = 0
    /\ UNCHANGED <<fin, FloatOthers>>

\* while f > 1. { f = f / 2.; e = e + 1; }: one iteration.
Halve ==
    /\ pc = "float-up" /\ GreaterThanOne(ff.mant, ff.exp)
    /\ ff' = Halved(ff)
    /\ fe' = fe + 1
    /\ UNCHANGED <<pc, fin, fs, FloatOthers>>

\* The first loop is left.
LeaveHalving ==
    /\ pc = "float-up" /\ ~GreaterThanOne(ff.mant, ff.exp)
    /\ pc' = "float-down"
    /\ UNCHANGED <<fin, ff, fe, fs, FloatOthers>>

\* while f <= 0.5 { f = f * 2.; e = e - 1; }: one iteration.
Double ==
    /\ pc = "float-down" /\ AtMostHalf(ff.mant, ff.exp)
    /\ ff' = Doubled(ff)
    /\ fe' = fe - 1
    /\ UNCHANGED <<pc, fin, fs, FloatOthers>>

\* The second loop is left: e and ':' are pushed, then assert!(f <= 1.) and
\* assert!(f > 0.5).
PushExponent ==
    /\ pc = "float-down" /\ ~AtMostHalf(ff.mant, ff.exp)
    /\ fs' = fs \o ToDecimalString(fe) \o <<58>>
    /\ pc' = IF GreaterThanOne(ff.mant, ff.exp) \/ AtMostHalf(ff.mant, ff.exp)
             THEN "float-panic" ELSE "float-mantissa"
    /\ UNCHANGED <<fin, ff, fe, FloatOthers>>

\* One iteration of while f != 0.: a digit is pushed and one subtracted for
\* a '1'; assert!(f < 1.) and assert!(s.len() < 1000); f = f * 2.
MantissaStep ==
    /\ pc = "float-mantissa" /\ ff.mant # 0
    /\ LET one == AtLeastOne(ff.mant, ff.exp)
           f1 == IF one THEN MinusOne(ff) ELSE ff
           s1 == Append(fs, IF one THEN 49 ELSE 48)
       IN /\ fs' = s1
          /\ IF ~BelowOne(f1.mant, f1.exp) \/ Len(s1) >= 1000
             THEN pc' = "float-panic" /\ ff' = f1
             ELSE pc' = pc /\ ff' = Doubled(f1)
    /\ UNCHANGED <<fin, fe, FloatOthers>>

\* f is zero: s is returned.
ReturnText ==
    /\ pc = "float-mantissa" /\ ff.mant = 0
    /\ pc' = "float-done"
    /\ UNCHANGED <<fin, ff, fe, fs, FloatOthers>>

FloatNext ==
    \/ ReturnZero \/ PushSign \/ Halve \/ LeaveHalving \/ Double
    \/ PushExponent \/ MantissaStep \/ ReturnText

SpecFloat == FloatInit /\ [][FloatNext]_vars

\* The call is never suspended: a step that can be taken is taken.
SpecFloatLive == SpecFloat /\ WF_vars(FloatNext)

\* C22: float_normalize of +0.0 and of -0.0 both return "+0:", so the two
\* zeros have the same hash under every algorithm.
C22_SignedZero ==
    pc = "float-done" /\ fin.mant = 0 =>
        /\ fs = Str(<<"+", "0", ":">>)
        /\ FloatNormalize(fin) = Ok(fs)
        /\ \A a \in Algorithms :
              /\ Blot(a, Float(F64(TRUE, 0, 0))) = Blot(a, Float(F64(FALSE, 0, 0)))
              /\ Blot(a, Float(fin)) = Ok(Primitive(a, TagFloat, fs))

\* float_normalize has returned for -0.0.
C22_Witness == pc = "float-done" /\ fin = F64(TRUE, 0, 0) /\ Len(fs) = 3


-----------------------------------------------------------------------------
(* SpecNumbers: an integer is hashed, then the double of the same value.    *)

\* The integers -MaxInteger..MaxInteger are tried, and the largest ones.
MaxInteger == 8

NumberInputs == ((0 - MaxInteger)..MaxInteger) \cup {2147483647, 0 - 2147483647}

NumbersInit ==
    /\ RestIdle /\ UvarIdle /\ SealIdle
    /\ pc = "number"
    /\ hashAlg \in Algorithms /\ hashT = hashAlg
    /\ \E n \in NumberInputs : value = Integer(n)
    /\ before = Idle /\ op = Idle /\ changed = Idle /\ after = Idle

\* Value::Integer(n).digest(hashAlg)
HashInteger ==
    /\ pc = "number"
    /\ pc' = "integer-hashed"
    /\ before' = ValueDigest(hashAlg, value)
    /\ UNCHANGED <<hashT, hashAlg, value, op, changed, after, uvarVars, sealVars, restVars>>

\* Value::Float(n as f64).digest(hashAlg)
HashAsFloat ==
    /\ pc = "integer-hashed"
    /\ pc' = "float-hashed"
    /\ LET n == value.val
           float == Float(F64(n < 0, IF n < 0 THEN 0 - n ELSE n, 0))
       IN /\ changed' = float
          /\ after' = ValueDigest(hashAlg, float)
    /\ UNCHANGED <<hashT, hashAlg, value, before, op, uvarVars, sealVars, restVars>>

NumbersNext == HashInteger \/ HashAsFloat

SpecNumbers == NumbersInit /\ [][NumbersNext]_vars

\* C23: the bytes absorbed for Integer(n) are the Integer tag and the decimal
\* text of n, those absorbed for Float(n as f64) are the Float tag and the
\* canonical float text, the two byte strings differ, and so do the digests.
C23_IntegerFloatDistinct ==
    pc = "float-hashed" =>
        LET text == FloatNormalize(changed.val)
            integerBytes == Input(Input(<<>>, <<TagInteger>>), ToDecimalString(value.val))
            floatBytes == Input(Input(<<>>, <<TagFloat>>), text.val)
        IN /\ text.kind = "Ok"
           /\ before = Ok(Hash(hashAlg, Result(hashAlg, integerBytes)))
           /\ after = Ok(Hash(hashAlg, Result(hashAlg, floatBytes)))
           /\ integerBytes # floatBytes
           /\ before # after

\* Integer(1) and Float(1.0) have both been hashed.
C23_Witness ==
    /\ pc = "float-hashed"
    /\ value = Integer(1) /\ changed = Float(F64(FALSE, 1, 0))
    /\ before.kind = "Ok" /\ after.kind = "Ok"

-----------------------------------------------------------------------------
(* The canonical float text, read back.                                     *)

RECURSIVE OddPart(_)
\* m without its factors of two, for m >= 1.
OddPart(m) == IF m % 2 = 1 THEN m ELSE OddPart(m \div 2)

RECURSIVE TrailingZeros(_)
\* The number of factors of two of m, for m >= 1.
TrailingZeros(m) == IF m % 2 = 1 THEN 0 ELSE 1 + TrailingZeros(m \div 2)

RECURSIVE BitLength(_)
\* The number of binary digits of m.
BitLength(m) == IF m = 0 THEN 0 ELSE 1 + BitLength(m \div 2)

\* The double odd * 2^exp with odd an odd number: one record per value.
Dyadic(neg, m, x) ==
    [neg |-> neg, odd |-> OddPart(m), exp |-> x + TrailingZeros(m)]

\* The position of the first ':' of a text, 0 when it has none.
ColonAt(s) ==
    IF \E i \in 1..Len(s) : s[i] = 58
    THEN CHOOSE i \in 1..Len(s) : s[i] = 58 /\ \A j \in 1..(i - 1) : s[j] # 58
    ELSE 0

RECURSIVE DigitsValue(_, _)
\* The number written by the digits s in a base, the most significant first.
DigitsValue(s, base) ==
    IF s = <<>> THEN 0
    ELSE DigitsValue(SubSeq(s, 1, Len(s) - 1), base) * base + (s[Len(s)] - 48)

\* The integer a decimal text stands for.
DecimalValue(s) ==
    IF s # <<>> /\ s[1] = 45 THEN 0 - DigitsValue(Tail(s), 10) ELSE DigitsValue(s, 10)

\* The only e with m * 2^x / 2^e in (1/2, 1], for m >= 1: a power of two
\* 2^(b-1) is 2^e itself, any other m of b binary digits is below 2^b.
ExponentOf(m, x) ==
    IF OddPart(m) = 1 THEN x + BitLength(m) - 1 ELSE x + BitLength(m)

\* C24: for a finite non-zero double the text returned is the sign, the
\* decimal text of e, ':' and binary digits d0 .. dk, where the sign is '+'
\* iff f > 0, e is the only integer with |f| / 2^e in (1/2, 1], and
\* |f| = 2^e * (d0 + d1/2 + ... + dk/2^k).  The double is thus a function of
\* its text: two distinct doubles never have the same text.
C24_FloatTextExact ==
    pc = "float-done" /\ fin.mant # 0 =>
        LET colon == ColonAt(fs)
            etext == SubSeq(fs, 2, colon - 1)
            digits == SubSeq(fs, colon + 1, Len(fs))
            e == DecimalValue(etext)
            k == Len(digits) - 1
            d == DigitsValue(digits, 2)
        IN /\ colon > 2
           /\ fs[1] = (IF fin.neg THEN 45 ELSE 43)
           /\ etext = ToDecimalString(e)
           /\ e = ExponentOf(fin.mant, fin.exp)
           /\ digits # <<>>
           /\ \A i \in 1..Len(digits) : digits[i] \in {48, 49}
           /\ d > 0
           /\ Dyadic(fs[1] = 45, d, e - k) = Dyadic(fin.neg, fin.mant, fin.exp)

\* A negative double with several binary digits and a negative exponent has
\* been written.
C24_Witness ==
    /\ pc = "float-done"
    /\ fin = F64(TRUE, 5, 0 - 6)
    /\ fs = Str(<<"-", "-", "3", ":", "0", "1", "0", "1">>)

\* C25: for every finite double each loop of float_normalize is left after
\* finitely many iterations, the mantissa loop with f == 0, and the call
\* returns.
C25_FloatTerminates ==
    /\ (pc = "float-up") ~> (pc = "float-down")
    /\ (pc = "float-down") ~> (pc = "float-mantissa")
    /\ (pc = "float-mantissa") ~> (pc = "float-done" /\ ff.mant = 0)
    /\ <>(pc = "float-done")

\* The smallest double, 2^-1074, has gone through the longest second loop,
\* and the largest power of two through the longest first loop.
C25_Witness ==
    /\ pc = "float-done"
    /\ \/ fin.mant = 1 /\ fin.exp = 0 - 1074 /\ fe = 0 - 1074
       \/ fin.mant = 1 /\ fin.exp = 1023 /\ fe = 1023

\* C26: for every finite non-zero double none of the four assert! calls
\* fails: 0.5 < f <= 1 after the exponent loops, f < 1 after every mantissa
\* step (f < 2 once doubled), and the text is shorter than 1000 characters.
C26_FloatAssertionsHold ==
    /\ pc # "float-panic"
    /\ pc \in {"float-mantissa", "float-done"} => Len(fs) < 1000
    /\ pc = "float-mantissa" /\ fs[Len(fs)] = 58 =>
          /\ ff.mant > 0
          /\ ~GreaterThanOne(ff.mant, ff.exp)
          /\ ~AtMostHalf(ff.mant, ff.exp)
    /\ pc = "float-mantissa" /\ fs[Len(fs)] # 58 => BelowOne(ff.mant, ff.exp - 1)

\* A double with a 31-bit mantissa has been written in full.
C26_Witness ==
    pc = "float-done" /\ fin.mant = 1073741825 /\ fin.exp = 0 - 1074 /\ Len(fs) > 31

-----------------------------------------------------------------------------
(* SpecAbsorb: one digester through a hash, a call of input() a step.       *)
(* The value is a Value<T>, or a HashSet<Option<Option<u8>>> hashed through *)
(* impl Blot for HashSet<T>.                                                *)

\* Option<T>
None == [kind |-> "None", val |-> <<>>]
Some(x) == [kind |-> "Some", val |-> x]
\* A u8 inside an Option.
U8(n) == [kind |-> "u8", val |-> n]
\* A HashSet<T>: its elements in iteration order, no element twice.
HashSet(items) == [kind |-> "HashSet", val |-> items]

RECURSIVE OptionBlot(_, _)
\* impl Blot for Option<T>: None is hashed as Null, Some(a) as a itself.
OptionBlot(a, o) ==
    CASE o.kind = "None" -> Ok(Primitive(a, TagNull, <<>>))
      [] o.kind = "Some" -> OptionBlot(a, o.val)
      [] o.kind = "u8" -> IntegerBlot(a, o.val)

\* The tag the hash of a value starts with.
TagOf(v) ==
    CASE v.kind = "Null" -> TagNull
      [] v.kind = "Bool" -> TagBool
      [] v.kind = "Integer" -> TagInteger
      [] v.kind = "Float" -> TagFloat
      [] v.kind = "String" -> TagUnicode
      [] v.kind = "Timestamp" -> TagTimestamp
      [] v.kind = "Raw" -> TagRaw
      [] v.kind = "List" -> TagList
      [] v.kind = "Set" -> TagSet
      [] v.kind = "HashSet" -> TagSet
      [] v.kind = "Dict" -> TagDict

\* The byte strings as results that are still to be absorbed.
AllOkOf(list) == [i \in 1..Len(list) |-> Ok(list[i])]

\* What a hash hands to input() after the tag, in order; the hash of a set
\* or of a dict has computed and sorted the hashes of the children before
\* its first input(), the hash of a list computes them as it goes.
Plan(a, v) ==
    CASE v.kind = "Null" -> Ok(<<Ok(<<>>)>>)
      [] v.kind = "Bool" -> Ok(<<Ok(IF v.val THEN <<49>> ELSE <<48>>)>>)
      [] v.kind = "Integer" -> Ok(<<Ok(ToDecimalString(v.val))>>)
      [] v.kind = "Float" ->
            LET text == IF v.val.cls = "nan" THEN Ok(<<78, 97, 78>>)
                        ELSE IF v.val.cls = "inf"
                             THEN Ok(IF v.val.neg
                                     THEN <<45, 73, 110, 102, 105, 110, 105, 116, 121>>
                                     ELSE <<73, 110, 102, 105, 110, 105, 116, 121>>)
                             ELSE FloatNormalize(v.val)
            IN IF text.kind = "Panic" THEN Panic ELSE Ok(<<text>>)
      [] v.kind \in {"String", "Timestamp", "Raw"} -> Ok(<<Ok(v.val)>>)
      [] v.kind = "List" -> Ok([i \in 1..Len(v.val) |-> Blot(a, v.val[i])])
      [] v.kind = "Set" ->
            LET results == [i \in 1..Len(v.val) |-> Blot(a, v.val[i])]
            IN IF AnyPanic(results) THEN Panic
               ELSE Ok(AllOkOf(Dedup(SortUnstable(Digests(results)))))
      [] v.kind = "HashSet" ->
            LET results == [i \in 1..Len(v.val) |-> OptionBlot(a, v.val[i])]
            IN Ok(AllOkOf(SortUnstable(Digests(results))))
      [] v.kind = "Dict" ->
            LET keys == [i \in 1..Len(v.val) |-> Ok(Primitive(a, TagUnicode, v.val[i].key))]
                values == [i \in 1..Len(v.val) |-> Blot(a, v.val[i].value)]
            IN IF AnyPanic(values) THEN Panic
               ELSE Ok(AllOkOf(SortUnstable([i \in 1..Len(v.val) |->
                                                keys[i].val \o values[i].val])))

\* One call of input(): the tag of the value, or bytes.
Call(what, bytes) == [what |-> what, bytes |-> bytes]

\* The bytes of the calls, in order.
CallBytes(calls) == [i \in 1..Len(calls) |-> calls[i].bytes]

\* The HashSets hashed: up to MaxLen + 1 options, in two iteration orders.
HashSets ==
    {HashSet(q) : q \in Prefixes(<<None, Some(None), Some(Some(U8(1)))>>, MaxLen + 1)
                          \cup Prefixes(<<Some(Some(U8(2))), Some(Some(U8(1))), None>>,
                                        MaxLen + 1)}

\* The values whose absorption is followed under a pair: those of SpecHash
\* that are no seals, and under the pairs that hash collections the HashSets.
AbsorbValues(pair) ==
    {v \in HashValues(pair) : v.kind # "Redacted"}
        \cup IF pair \in CollectionPairs THEN HashSets ELSE {}

AbsorbInit ==
    /\ UvarIdle /\ SealIdle /\ hashText = Idle /\ BufIdle /\ DeIdle /\ RegIdle /\ FloatIdle
    /\ pc = "absorb"
    /\ \E pair \in HashPairs :
          hashT = pair[1] /\ hashAlg = pair[2] /\ value \in AbsorbValues(pair)
    /\ before = Idle /\ op = Idle /\ changed = Idle /\ after = Idle
    /\ hin = <<>> /\ hrest = <<>> /\ hout = Idle

AbsorbOthers ==
    <<hashT, hashAlg, value, before, op, changed, after, uvarVars, sealVars,
      hashText, bufVars, deVars, regVars, floatVars>>

\* hasher.input(&tag.to_bytes()), once the children that are hashed first
\* have been.
InputTag ==
    /\ pc = "absorb"
    /\ LET plan == Plan(hashAlg, value)
       IN IF plan.kind = "Panic"
          THEN pc' = "absorb-panic" /\ UNCHANGED <<hin, hrest>>
          ELSE /\ pc' = "absorbing"
               /\ hin' = <<Call("tag", <<TagOf(value)>>)>>
               /\ hrest' = plan.val
    /\ UNCHANGED <<hout, AbsorbOthers>>

\* hasher.input(bytes): the next byte string, unless its hash panicked.
InputBytes ==
    /\ pc = "absorbing" /\ hrest # <<>>
    /\ IF Head(hrest).kind = "Panic"
       THEN pc' = "absorb-panic" /\ UNCHANGED <<hin, hrest>>
       ELSE /\ hin' = Append(hin, Call("bytes", Head(hrest).val))
            /\ hrest' = Tail(hrest)
            /\ pc' = pc
    /\ UNCHANGED <<hout, AbsorbOthers>>

\* hasher.result(): the digester is consumed.
Finalise ==
    /\ pc = "absorbing" /\ hrest = <<>>
    /\ pc' = "absorbed"
    /\ hout' = Ok(Result(hashAlg, InputAll(<<>>, CallBytes(hin))))
    /\ UNCHANGED <<hin, hrest, AbsorbOthers>>

AbsorbNext == InputTag \/ InputBytes \/ Finalise

SpecAbsorb == AbsorbInit /\ [][AbsorbNext]_vars

\* The byte strings the children of a collection contribute: the hash of an
\* element, or the hash of a key followed by the hash of its value.
ChildBytes(a, v) ==
    CASE v.kind = "Dict" ->
            {Primitive(a, TagUnicode, v.val[i].key) \o Blot(a, v.val[i].value).val :
                i \in 1..Len(v.val)}
      [] v.kind = "HashSet" -> {OptionBlot(a, v.val[i]).val : i \in 1..Len(v.val)}
      [] OTHER -> {Blot(a, v.val[i]).val : i \in 1..Len(v.val)}

\* What the calls of input() made so far must look like.
AbsorbedInOrder ==
    pc \in {"absorbing", "absorbed"} =>
        /\ hin # <<>>
        /\ hin[1] = Call("tag", <<TagOf(value)>>)
        /\ \A i \in 2..Len(hin) : hin[i].what = "bytes"
        /\ value.kind = "List" =>
              /\ Len(hin) <= Len(value.val) + 1
              /\ \A i \in 2..Len(hin) : hin[i].bytes = Blot(hashAlg, value.val[i - 1]).val
              /\ pc = "absorbed" => Len(hin) = Len(value.val) + 1
        /\ value.kind \in {"Set", "HashSet", "Dict"} =>
              /\ \A i, j \in 2..Len(hin) : i < j => ~LexLess(hin[j].bytes, hin[i].bytes)
              /\ \A i \in 2..Len(hin) : hin[i].bytes \in ChildBytes(hashAlg, value)
              /\ pc = "absorbed" =>
                    {hin[i].bytes : i \in 2..Len(hin)} = ChildBytes(hashAlg, value)
        /\ pc = "absorbed" => hout = Ok(Result(hashAlg, Flatten(CallBytes(hin))))

\* C27: the first call of input() on the digester of a non-redacted value
\* hands it the tag byte of the value's kind, and no later call does; a List
\* then has the hashes of its elements absorbed in list order, a Set or a
\* Dict the byte strings of its children in ascending byte-lexicographic
\* order; once result() has been called nothing more is absorbed.
C27_AbsorptionOrder ==
    /\ []AbsorbedInOrder
    /\ [][pc = "absorbed" => hin' = hin /\ hout' = hout]_vars

\* A dict of two entries has been hashed, and the entry that came second in
\* the iteration order was absorbed first.
C27_Witness ==
    /\ pc = "absorbed" /\ value.kind = "Dict" /\ Len(hin) = 3
    /\ StartsWith(hin[2].bytes, Primitive(hashAlg, TagUnicode, value.val[2].key))
    /\ LexLess(hin[2].bytes, hin[3].bytes)

\* C28: on both set paths, Value::Set and impl Blot for HashSet<T>, the
\* element hashes absorbed after the Set tag are strictly ascending in byte
\* order: no hash is absorbed twice, even when two distinct elements have
\* the same hash.
C28_SetDigestsStrictlyAscending ==
    pc \in {"absorbing", "absorbed"} /\ value.kind \in {"Set", "HashSet"} =>
        \A i, j \in 2..Len(hin) : i < j => LexLess(hin[i].bytes, hin[j].bytes)

-----------------------------------------------------------------------------
(* SpecBridge: one JSON text is read as a Value<T> and hashed, and read as  *)
(* a serde_json::Value and hashed through the JSON bridge.                  *)

\* The Number serde_json reads from an integer literal: the ParserNumber,
\* with the integer where it is one.
SerdeNumber(lit) ==
    LET n == ParserNumber(lit)
    IN [is |-> n.is, float |-> n.float,
        int |-> IF n.is = "f64" THEN 0 ELSE I64(lit.neg, lit.mag)]

RECURSIVE FromStrJson(_)
\* serde_json::from_str::<serde_json::Value>(text): a key met again in an
\* object takes the later value.
FromStrJson(doc) ==
    CASE doc.kind = "JInteger" -> [kind |-> "JNumber", val |-> SerdeNumber(doc.val)]
      [] doc.kind = "JArray" -> JArray([i \in 1..Len(doc.val) |-> FromStrJson(doc.val[i])])
      [] doc.kind = "JObject" ->
            JObject(Inserted([i \in 1..Len(doc.val) |->
                                 [key |-> doc.val[i].key,
                                  value |-> FromStrJson(doc.val[i].value)]]))
      [] OTHER -> doc

\* The members of the arrays of the texts that are hashed, in the order they
\* are taken.
BridgeElements ==
    <<JLit(1), JArray(<<JString(Str(<<"a", "b">>))>>), JString(Str(<<"a">>))>>

\* The members of the objects, in the order they are taken.
BridgeEntries ==
    <<[key |-> Str(<<"a", "b">>), value |-> JLit(1)],
      [key |-> Str(<<"a", "b">>), value |-> JNull],
      [key |-> Str(<<"a">>), value |-> JArray(<<JLit(1)>>)]>>

\* The JSON texts: the strings of SpecDe, the integers that both readers
\* take as small integers, and arrays and objects of up to MaxDeLen members.
BridgeDocs(t) ==
    {JNull, JBool(TRUE), JBool(FALSE), JFloat(F64(FALSE, 3, -1)),
     JLit(0), JLit(1), JLit(12), JLit(-3), MinusZero}
        \cup {JString(x) : x \in DeStrings(t)}
        \cup {JArray(q) : q \in Prefixes(BridgeElements, MaxDeLen)}
        \cup {JObject(q) : q \in Prefixes(BridgeEntries, MaxDeLen)}

BridgeInit ==
    /\ pc = "bridge"
    /\ deT \in Algorithms /\ hashT = deT /\ hashAlg = deT
    /\ deDoc \in BridgeDocs(deT)
    /\ deMode = "Value"
    /\ deRes = Idle /\ value = Idle /\ before = Idle /\ after = Idle
    /\ op = Idle /\ changed = Idle
    /\ UvarIdle /\ SealIdle /\ hashText = Idle /\ BufIdle /\ RegIdle /\ StepIdle

BridgeOthers == <<uvarVars, sealVars, hashText, bufVars, regVars, stepVars>>

\* serde_json::from_str of the text, as a Value<T> and as a serde_json::Value
ReadBoth ==
    /\ pc = "bridge"
    /\ pc' = "bridge-read"
    /\ deRes' = DeserializeValue(deT, deDoc)
    /\ value' = FromStrJson(deDoc)
    /\ UNCHANGED <<hashT, hashAlg, before, op, changed, after, deDoc, deMode, deT, BridgeOthers>>

\* digest(T) on the Value<T>, where one was read
HashRead ==
    /\ pc = "bridge-read"
    /\ pc' = "bridge-value-hashed"
    /\ before' = IF deRes.kind = "Ok" THEN ValueDigest(hashAlg, deRes.val) ELSE deRes
    /\ UNCHANGED <<hashT, hashAlg, value, op, changed, after, deVars, BridgeOthers>>

\* digest(T) on the serde_json::Value
HashBridge ==
    /\ pc = "bridge-value-hashed"
    /\ pc' = "bridge-done"
    /\ after' = JsonDigest(hashAlg, value)
    /\ UNCHANGED <<hashT, hashAlg, value, before, op, changed, deVars, BridgeOthers>>

BridgeNext == ReadBoth \/ HashRead \/ HashBridge

SpecBridge == BridgeInit /\ [][BridgeNext]_vars

\* C29: for every JSON text and algorithm, the text read as a Value<T> in
\* list mode and the text read as a serde_json::Value have the same hash,
\* texts with **REDACTED**, hexadecimal and timestamp strings included.
C29_BridgesAgree ==
    pc = "bridge-done" => before.kind = "Ok" /\ after = before
=============================================================================
